---- MODULE Spec2Model ----
(***************************************************************************)
(* Yeti - Bluesky Jetstream monitor (src/yeti.py).                         *)
(*                                                                         *)
(* The live pipeline of run_monitor_inner as a state machine: the          *)
(* cooperative tasks monitor_jetstream, check_keyboard, periodic_flush,    *)
(* update_live_stats and process_queue_worker, the executor thread that    *)
(* runs process_post_analyzed, and the module globals they share.          *)
(*                                                                         *)
(* One action is one run of a task between two suspension points (await).  *)
(* Time is abstract: a sleep or a timeout can end at any moment, the clock *)
(* `now` advances by Tick.  Python's None is the empty sequence, a value x *)
(* that may be None is <<x>>.  Strings that are searched are sequences of  *)
(* one-character strings.                                                  *)
(***************************************************************************)
EXTENDS Integers, Sequences, FiniteSets, TLC

VARIABLES
    silent_mode,             \* main: display_choice in ("2", "")
    analyzed_mode,           \* main: display_choice == "3"
    run_time_limit,          \* global run_time_limit (None or seconds)
    run_post_limit,          \* global run_post_limit (None or count)
    auto_restart,            \* global auto_restart
    quit_flag,               \* global quit_flag      (IMMEDIATE)
    graceful_stop,           \* global graceful_stop  (GRACEFUL)
    stats,                   \* global stats: the active Statistics object
    archived,                \* the sessions replaced by archive_logs_and_reset
    log_files,               \* global log_files: the active LogFiles object
    fs,                      \* the files under LOGS/: name -> sessions that wrote to it
    reports,                 \* console: ids of the sessions whose report was printed
    post_queue,              \* global post_queue (queue.Queue)
    enqueued,                \* number of successful post_queue.put calls
    current_processing_post, \* global current_processing_post
    executor,                \* the run_in_executor future of the worker
    emitted,                 \* tasks shown by display_analyzed_post, in order
    stdin,                   \* keys typed and not yet read by check_key_pressed
    received,                \* number of records delivered by ws.recv()
    ws_msg,                  \* monitor_jetstream: the frames ws.recv() returned
    top,                     \* what get_top_keywords and get_top_hashtags returned last
    data_file,               \* the capture file of a replay: its lines and the lines read
    now,                     \* datetime.now(), in seconds
    drain_timed_out,         \* the wait of run_monitor_inner line 1789 ended by its timeout
    queued_at_stop,          \* history: ids in post_queue when graceful_stop was set
    pc                       \* the suspension point of every task

vars == <<silent_mode, analyzed_mode, run_time_limit, run_post_limit, auto_restart,
          quit_flag, graceful_stop, stats, archived, log_files, fs, reports,
          post_queue, enqueued, current_processing_post, executor, emitted,
          stdin, received, ws_msg, top, data_file, now, drain_timed_out, queued_at_stop, pc>>

config == <<silent_mode, analyzed_mode, run_time_limit, run_post_limit, auto_restart>>

(***************************************************************************)
(* Bounds of the model.                                                    *)
(***************************************************************************)
MaxMsgs == 2        \* records delivered by the upstream in one run
MaxTime == 2        \* seconds the clock can reach
MaxPending == 1     \* keys typed ahead of check_key_pressed
MaxDay == 2         \* calendar days the run can span
MaxTop == 2         \* items asked of get_top_keywords and get_top_hashtags
MaxLines == 2       \* lines of a capture file
TimeLimit == 1      \* the duration entered for a time-limited run
PostLimit == 1      \* the count entered for a post-limited run
SpecCapacity == 1   \* the queue capacity the specification asks for, scaled down

None == <<>>
Some(x) == <<x>>

(***************************************************************************)
(* Strings.                                                                *)
(***************************************************************************)
LowerChar(c) ==
    IF c = "A" THEN "a" ELSE IF c = "B" THEN "b" ELSE IF c = "T" THEN "t" ELSE c

\* str.lower()
lower(s) == [i \in 1..Len(s) |-> LowerChar(s[i])]

\* Python's `sub in s` for strings
Contains(sub, s) ==
    \E i \in 0..(Len(s) - Len(sub)) : SubSeq(s, i + 1, i + Len(sub)) = sub

\* the keyword list loaded by main, and keywords_lower
keywords == << <<"a">>, <<"B">> >>
keywords_lower == [i \in 1..Len(keywords) |-> lower(keywords[i])]

(***************************************************************************)
(* Frames delivered by the upstream.  size is the length in bytes of the   *)
(* frame and valid tells whether json.loads accepts it; kind, operation    *)
(* and collection are the fields of the event.  shape "ok": commit.record  *)
(* is a dict with a string text; "bad_record": commit.record is not a      *)
(* dict; "bad_text": the text is a non-empty value that is not a string.   *)
(* langs is record.langs; facets is record.facets, each facet given by the *)
(* list of its features [type, value].                                     *)
(***************************************************************************)
MAX_JSON_SIZE == 1024 * 1024

Texts == { <<>>, <<"x">>, <<"A", "b">> }

\* a well-formed frame that carries a post-create commit
PostCreate(shape, text, langs, facets) ==
    [size |-> 1, valid |-> TRUE, kind |-> "commit", operation |-> "create",
     collection |-> "app.bsky.feed.post", shape |-> shape, text |-> text,
     langs |-> langs, facets |-> facets]

\* the frames of the live run: posts without language tags and facets, a
\* post whose record or text is malformed, and a frame that is not JSON
Messages ==
    { PostCreate("ok", t, <<>>, <<>>) : t \in Texts }
    \cup { PostCreate("bad_record", <<>>, <<>>, <<>>),
           PostCreate("bad_text", <<>>, <<>>, <<>>),
           [PostCreate("ok", <<>>, <<>>, <<>>) EXCEPT !.valid = FALSE] }

\* safe_json_loads without the size check of lines 841-843
safe_json_loads_NoCeiling(data) ==
    IF data.size = 0 THEN None
    ELSE IF ~data.valid THEN None
    ELSE Some(data)

\* safe_json_loads: None for an empty, an oversized or an unparsable frame
safe_json_loads(data) ==
    IF data.size = 0 THEN None
    ELSE IF data.size > MAX_JSON_SIZE THEN None
    ELSE IF ~data.valid THEN None
    ELSE Some(data)

\* lines 1723-1725: the event is the creation of a post
IsPostCreate(data) ==
    /\ data.kind = "commit"
    /\ data.operation = "create"
    /\ data.collection = "app.bsky.feed.post"

\* facet features of type app.bsky.richtext.facet#tag and #link
Tag(v) == [type |-> "tag", value |-> v]
Link(v) == [type |-> "link", value |-> v]

\* a membership test that never finds the value
InList_Never(x, l) == FALSE

\* Python's `x in list`
InList(x, l) == \E i \in 1..Len(l) : l[i] = x

\* extract_hashtags: the inner loop over the features of one facet
RECURSIVE HashtagsOfFeatures(_, _)
HashtagsOfFeatures(hashtags, features) ==
    IF features = <<>> THEN hashtags
    ELSE LET feature == Head(features)
             tag == feature.value
         IN HashtagsOfFeatures(
                IF feature.type = "tag" /\ tag # <<>> /\ ~InList(tag, hashtags)
                THEN Append(hashtags, tag) ELSE hashtags,
                Tail(features))

\* extract_hashtags: the outer loop over the facets
RECURSIVE HashtagsOfFacets(_, _)
HashtagsOfFacets(hashtags, facets) ==
    IF facets = <<>> THEN hashtags
    ELSE HashtagsOfFacets(HashtagsOfFeatures(hashtags, Head(facets)), Tail(facets))

extract_hashtags(record) == HashtagsOfFacets(<<>>, record.facets)

\* A URI is the list of its parts: a scheme and ":", then "//" and a host,
\* then a path; each of them may be missing.  The schemes of the model are
\* in lower case.
\* urlparse: the scheme in front of ":" and the network location after "//"
urlparse(url) ==
    LET has_scheme == Len(url) >= 2 /\ url[2] = ":"
        rest == IF has_scheme THEN SubSeq(url, 3, Len(url)) ELSE url
    IN [scheme |-> IF has_scheme THEN url[1] ELSE "",
        netloc |-> IF Len(rest) >= 2 /\ rest[1] = "//" THEN rest[2] ELSE ""]

\* validate_url
validate_url(url) ==
    IF url = <<>> THEN FALSE
    ELSE LET result == urlparse(url)
         IN result.scheme \in {"http", "https"} /\ result.netloc # ""

\* extract_links: the inner loop over the features of one facet
RECURSIVE LinksOfFeatures(_, _)
LinksOfFeatures(links, features) ==
    IF features = <<>> THEN links
    ELSE LET feature == Head(features)
             uri == feature.value
         IN LinksOfFeatures(
                IF /\ feature.type = "link" /\ uri # <<>>
                   /\ ~InList(uri, links) /\ validate_url(uri)
                THEN Append(links, uri) ELSE links,
                Tail(features))

\* extract_links: the outer loop over the facets
RECURSIVE LinksOfFacets(_, _)
LinksOfFacets(links, facets) ==
    IF facets = <<>> THEN links
    ELSE LinksOfFacets(LinksOfFeatures(links, Head(facets)), Tail(facets))

extract_links(record) == LinksOfFacets(<<>>, record.facets)

(***************************************************************************)
(* class Statistics                                                        *)
(***************************************************************************)
\* defaultdict(int): d[k] += 1
Incr(d, k) == IF k \in DOMAIN d THEN [d EXCEPT ![k] = @ + 1] ELSE d @@ (k :> 1)

EmptyDict == [k \in {} |-> 0]

\* Statistics.__init__; id numbers the objects in order of construction
Statistics(kws, id, t) ==
    [id |-> id, keywords |-> kws, start_time |-> t, end_time |-> None,
     total_posts |-> 0, displayed_posts |-> 0, keyword_counts |-> EmptyDict,
     language_counts |-> EmptyDict, hashtag_counts |-> EmptyDict,
     all_hashtag_counts |-> EmptyDict, total_urls |-> 0,
     finish_calls |-> 0]

\* mutant of record_post: the post is not counted
record_post_NotCounted(s) == s

\* Statistics.record_post
record_post(s) == [s EXCEPT !.total_posts = @ + 1]

RECURSIVE CountKeywords(_, _, _)
CountKeywords(counts, text_lower, kws) ==
    IF kws = <<>> THEN counts
    ELSE CountKeywords(IF Contains(lower(Head(kws)), text_lower)
                       THEN Incr(counts, Head(kws)) ELSE counts,
                       text_lower, Tail(kws))

record_displayed(s, text_lower, kws) ==
    [s EXCEPT !.displayed_posts = @ + 1,
              !.keyword_counts = CountKeywords(@, text_lower, kws)]

\* for x in l: d[key(x)] += 1, with key the identity or str.lower
RECURSIVE IncrAll(_, _, _)
IncrAll(d, l, lowered) ==
    IF l = <<>> THEN d
    ELSE IncrAll(Incr(d, IF lowered THEN lower(Head(l)) ELSE Head(l)), Tail(l), lowered)

\* Statistics.record_language
\* a record_language that counts the first tag only
record_language_FirstOnly(s, langs) ==
    [s EXCEPT !.language_counts = IF langs # <<>> THEN Incr(@, Head(langs))
                                  ELSE Incr(@, "unknown")]

record_language(s, langs) ==
    [s EXCEPT !.language_counts = IF langs # <<>> THEN IncrAll(@, langs, FALSE)
                                  ELSE Incr(@, "unknown")]

\* Statistics.record_hashtags
record_hashtags(s, hashtags) ==
    [s EXCEPT !.hashtag_counts = IncrAll(@, hashtags, TRUE)]

\* a record_all_hashtags that keeps the case of the tags
record_all_hashtags_CaseKept(s, hashtags) ==
    [s EXCEPT !.all_hashtag_counts = IncrAll(@, hashtags, FALSE)]

\* Statistics.record_all_hashtags
record_all_hashtags(s, hashtags) ==
    [s EXCEPT !.all_hashtag_counts = IncrAll(@, hashtags, TRUE)]

\* Statistics.record_url
record_url(s) == [s EXCEPT !.total_urls = @ + 1]

\* the place in items of the first item with the largest count
FirstLargest(items) ==
    CHOOSE i \in 1..Len(items) :
        /\ \A j \in 1..Len(items) : items[j][2] <= items[i][2]
        /\ \A j \in 1..(i - 1) : items[j][2] < items[i][2]

\* seq without its i-th element
Without(seq, i) == SubSeq(seq, 1, i - 1) \o SubSeq(seq, i + 1, Len(seq))

\* heapq.nlargest(n, items, key=lambda x: x[1]), which is
\* sorted(items, key=key, reverse=True)[:n]: a stable sort
RECURSIVE nlargest(_, _)
nlargest(n, items) ==
    IF n <= 0 \/ items = <<>> THEN <<>>
    ELSE LET i == FirstLargest(items)
         IN <<items[i]>> \o nlargest(n - 1, Without(items, i))

\* counts.items(): the pairs of a dict.  Python lists them in the order of
\* insertion, which the dicts of the model do not keep; the order taken here
\* is an arbitrary one
RECURSIVE items_of(_)
items_of(counts) ==
    IF DOMAIN counts = {} THEN <<>>
    ELSE LET k == CHOOSE x \in DOMAIN counts : TRUE
         IN << <<k, counts[k]>> >> \o items_of([x \in DOMAIN counts \ {k} |-> counts[x]])

\* dict.get(key, 0)
get(d, key) == IF key \in DOMAIN d THEN d[key] ELSE 0

\* the list comprehension of lines 311-312
RECURSIVE PositiveKeywordItems(_, _)
PositiveKeywordItems(s, kws) ==
    IF kws = <<>> THEN <<>>
    ELSE (IF get(s.keyword_counts, Head(kws)) > 0
          THEN << <<Head(kws), s.keyword_counts[Head(kws)]>> >> ELSE <<>>)
         \o PositiveKeywordItems(s, Tail(kws))

\* get_top_keywords with a sort that takes the last of equal counts first
get_top_keywords_Unstable(s, n) ==
    LET Reverse(seq) == [i \in 1..Len(seq) |-> seq[Len(seq) + 1 - i]]
    IN IF DOMAIN s.keyword_counts = {} THEN <<>>
       ELSE nlargest(n, Reverse(PositiveKeywordItems(s, s.keywords)))

\* Statistics.get_top_keywords
get_top_keywords(s, n) ==
    IF DOMAIN s.keyword_counts = {} THEN <<>>
    ELSE nlargest(n, PositiveKeywordItems(s, s.keywords))

\* Statistics.get_top_hashtags
get_top_hashtags(s, n, filtered) ==
    LET counts == IF filtered THEN s.hashtag_counts ELSE s.all_hashtag_counts
    IN IF DOMAIN counts = {} THEN <<>>
       ELSE nlargest(n, items_of(counts))

\* Statistics.finish; finish_calls counts the calls on this object
finish(s, t) == [s EXCEPT !.end_time = Some(t), !.finish_calls = @ + 1]

\* Statistics.get_duration().total_seconds()
get_duration(s, t) == (IF s.end_time = None THEN t ELSE s.end_time[1]) - s.start_time

(***************************************************************************)
(* class LogFiles                                                          *)
(***************************************************************************)
\* the name LOGS/{prefix}_{date}.log
LogName(prefix, date) == [dir |-> "LOGS", prefix |-> prefix, date |-> date]

\* LogFiles.__init__: the object
LogFiles(source_type, date) ==
    [date_str |-> date, source_type |-> source_type,
     all_filename |-> LogName(IF source_type = "live" THEN "LIVE" ELSE "FULL", date),
     closed |-> FALSE]

\* LogFiles.__init__: open(all_filename, 'a') creates the file when it is missing
OpenAppend(files, name) ==
    IF name \in DOMAIN files THEN files ELSE files @@ (name :> {})

\* LogFiles.log_all: one line appended by session id
log_all(files, lf, id) == [files EXCEPT ![lf.all_filename] = @ \cup {id}]

\* LogFiles.close
close(lf) == [lf EXCEPT !.closed = TRUE]

(***************************************************************************)
(* The module globals that the synchronous functions below read and write, *)
(* as one value g: they run inside one step of the calling task.           *)
(***************************************************************************)
Globals ==
    [stats |-> stats, archived |-> archived, log_files |-> log_files, fs |-> fs,
     reports |-> reports, post_queue |-> post_queue, enqueued |-> enqueued,
     quit_flag |-> quit_flag]

Commit(g) ==
    /\ stats' = g.stats
    /\ archived' = g.archived
    /\ log_files' = g.log_files
    /\ fs' = g.fs
    /\ reports' = g.reports
    /\ post_queue' = g.post_queue
    /\ enqueued' = g.enqueued
    /\ quit_flag' = g.quit_flag

\* a put that leaves the item on the queue twice
put_Twice(q, item) == Append(Append(q, item), item)

\* queue.Queue() is built without maxsize (line 129): put never blocks and
\* never raises queue.Full, it appends.
put(q, item) == Append(q, item)

\* what the model keeps of a session that archive_logs_and_reset replaced
Archived(s, lf) ==
    [id |-> s.id, finish_calls |-> s.finish_calls, ended |-> s.end_time # None,
     displayed_posts |-> s.displayed_posts, log_files |-> lf]

\* mutant of archive_logs_and_reset: the counters of the old session are kept
archive_logs_and_reset_KeepsCounters(g, date) ==
    LET old == finish(g.stats, now)
        lf == LogFiles("live", date)
    IN [g EXCEPT !.reports = Append(@, old.id),
                 !.archived = Append(@, Archived(old, close(g.log_files))),
                 !.stats = [g.stats EXCEPT !.id = @ + 1, !.start_time = now],
                 !.log_files = lf,
                 !.fs = OpenAppend(@, lf.all_filename)]

\* archive_logs_and_reset: finish and report the active session, close its
\* sink, then a new Statistics and a new LogFiles become the active ones.
archive_logs_and_reset(g, date) ==
    LET old == finish(g.stats, now)
        lf == LogFiles("live", date)
    IN [g EXCEPT !.reports = Append(@, old.id),
                 !.archived = Append(@, Archived(old, close(g.log_files))),
                 !.stats = Statistics(old.keywords, old.id + 1, now),
                 !.log_files = lf,
                 !.fs = OpenAppend(@, lf.all_filename)]

\* a check_run_limits that clears quit_flag when it is called
check_run_limits_ClearsQuit(g, date) ==
    [g |-> [g EXCEPT !.quit_flag = FALSE], ret |-> FALSE]

\* mutant of check_run_limits: the post limit is not looked at
check_run_limits_NoPostLimit(g, date) ==
    IF g.quit_flag THEN [g |-> g, ret |-> TRUE]
    ELSE IF run_time_limit # None /\ get_duration(g.stats, now) >= run_time_limit[1]
    THEN IF auto_restart
         THEN [g |-> archive_logs_and_reset(g, date), ret |-> FALSE]
         ELSE [g |-> [g EXCEPT !.quit_flag = TRUE], ret |-> TRUE]
    ELSE [g |-> g, ret |-> FALSE]

\* check_run_limits: the globals after the call and the value returned
check_run_limits(g, date) ==
    IF g.quit_flag THEN [g |-> g, ret |-> TRUE]
    ELSE IF run_time_limit # None /\ get_duration(g.stats, now) >= run_time_limit[1]
    THEN IF auto_restart
         THEN [g |-> archive_logs_and_reset(g, date), ret |-> FALSE]
         ELSE [g |-> [g EXCEPT !.quit_flag = TRUE], ret |-> TRUE]
    ELSE IF run_post_limit # None /\ g.stats.displayed_posts >= run_post_limit[1]
    THEN [g |-> [g EXCEPT !.quit_flag = TRUE], ret |-> TRUE]
    ELSE [g |-> g, ret |-> FALSE]

\* [kw for kw, kw_low in zip(keywords, keywords_lower) if kw_low in text_lower]
RECURSIVE MatchedKeywords(_, _, _)
MatchedKeywords(kws, kws_lower, text_lower) ==
    IF kws = <<>> \/ kws_lower = <<>> THEN <<>>
    ELSE (IF Contains(Head(kws_lower), text_lower) THEN <<Head(kws)>> ELSE <<>>)
         \o MatchedKeywords(Tail(kws), Tail(kws_lower), text_lower)

\* a filter that knows no wildcard
HasWildcard_Never(kws) == FALSE

\* '*' in keywords
HasWildcard(kws) == \E i \in 1..Len(kws) : kws[i] = <<"*">>

\* display_post with text.lower() raising only after record_displayed
display_post_RaisesLate(g, post_data, kws, kws_lower) ==
    IF post_data.shape = "bad_record" THEN g
    ELSE
    LET text == post_data.text
        hashtags == extract_hashtags(post_data)
        g1 == [g EXCEPT !.stats = record_post(@)]
        g2 == IF hashtags # <<>> THEN [g1 EXCEPT !.stats = record_all_hashtags(@, hashtags)]
              ELSE g1
        logged == [g2 EXCEPT !.fs = log_all(@, g.log_files, g.stats.id)]
    IN  IF post_data.shape = "bad_text"
        THEN (IF g.log_files.closed THEN g2
              ELSE [logged EXCEPT !.stats.displayed_posts = @ + 1])
        ELSE IF text = <<>> THEN g2
        ELSE IF g.log_files.closed THEN g2
        ELSE
        LET text_lower == lower(text)
            matched == IF HasWildcard(kws) THEN << <<"*">> >>
                       ELSE MatchedKeywords(kws, kws_lower, text_lower)
            counted == record_displayed(record_language(logged.stats, post_data.langs),
                                        text_lower, kws)
            g3 == [logged EXCEPT !.stats = IF hashtags # <<>>
                                           THEN record_hashtags(counted, hashtags)
                                           ELSE counted]
        IN  IF matched = <<>> THEN logged
            ELSE IF silent_mode THEN g3
            ELSE IF analyzed_mode
            THEN [g3 EXCEPT !.post_queue = put(@, [id |-> g.enqueued + 1,
                                                   text |-> text,
                                                   langs |-> post_data.langs,
                                                   facets |-> post_data.facets]),
                            !.enqueued = @ + 1]
            ELSE g3

\* display_post; an exception raised on the way is swallowed by the
\* function's own `except Exception: pass`, what was written before stays.
display_post(g, post_data, kws, kws_lower) ==
    IF post_data.shape = "bad_record" THEN g      \* record.get raises (line 1578)
    ELSE
    LET text == post_data.text
        hashtags == extract_hashtags(post_data)
        g1 == [g EXCEPT !.stats = record_post(@)]
        g2 == IF hashtags # <<>> THEN [g1 EXCEPT !.stats = record_all_hashtags(@, hashtags)]
              ELSE g1
        logged == [g2 EXCEPT !.fs = log_all(@, g.log_files, g.stats.id)]
    IN  IF post_data.shape = "bad_text"
        THEN (IF g.log_files.closed THEN g2       \* write raises ValueError (line 569)
              ELSE logged)                        \* text.lower() raises (line 1609)
        ELSE IF text = <<>> THEN g2
        ELSE IF g.log_files.closed THEN g2        \* write raises ValueError (line 569)
        ELSE
        LET text_lower == lower(text)
            matched == IF HasWildcard(kws) THEN << <<"*">> >>
                       ELSE MatchedKeywords(kws, kws_lower, text_lower)
            counted == record_displayed(record_language(logged.stats, post_data.langs),
                                        text_lower, kws)
            g3 == [logged EXCEPT !.stats = IF hashtags # <<>>
                                           THEN record_hashtags(counted, hashtags)
                                           ELSE counted]
        IN  IF matched = <<>> THEN logged
            ELSE IF silent_mode THEN g3
            ELSE IF analyzed_mode
            THEN [g3 EXCEPT !.post_queue = put(@, [id |-> g.enqueued + 1,
                                                   text |-> text,
                                                   langs |-> post_data.langs,
                                                   facets |-> post_data.facets]),
                            !.enqueued = @ + 1]
            ELSE g3

(***************************************************************************)
(* process_post_analyzed and its collaborators                             *)
(***************************************************************************)
MAX_TEXT_LENGTH == 5000

\* what the Google Translate endpoint answers: a translation with the
\* language it detected, or a failure (timeout, connection error, status
\* other than 200, body that is not the expected JSON)
TranslationResponses ==
    { [ok |-> TRUE, detected |-> "en"], [ok |-> FALSE, detected |-> ""] }

\* what app.bsky.actor.getProfile answers: a display name, or a failure
ProfileResponses ==
    { [ok |-> TRUE, displayName |-> "name"], [ok |-> FALSE, displayName |-> ""] }

\* the Finnish text the endpoint returns for text
Finnish(text) == <<"fi:">> \o text

\* sanitize_text; the texts of the model hold no white space to strip
sanitize_text(text, max_length) ==
    IF text = <<>> THEN <<>>
    ELSE IF Len(text) > max_length THEN SubSeq(text, 1, max_length)
    ELSE text

\* translate_to_finnish: the pair (translated_text, source_language_code)
translate_to_finnish(text, response) ==
    IF text = <<>> THEN <<text, "unknown">>
    ELSE LET sanitized == sanitize_text(text, MAX_TEXT_LENGTH)
         IN IF response.ok THEN <<Finnish(sanitized), response.detected>>
            ELSE <<sanitized, "unknown">>

\* fetch_bluesky_profile and line 1397: the display name, the DID when the
\* lookup failed
author_display_name(response) == IF response.ok THEN response.displayName ELSE "did"

\* process_post_analyzed with the sentinel of a failed translation copied
\* into the post_info dict
process_post_analyzed_SentinelKept(post_data, translation, profile) ==
    IF quit_flag THEN None
    ELSE
    LET text == post_data.text
        langs == post_data.langs
        lang_code == IF langs # <<>> THEN langs[1] ELSE "unknown"
        post_info == [original_text |-> text,
                      language_code |-> lang_code,
                      author_display_name |-> author_display_name(profile),
                      hashtags |-> extract_hashtags(post_data),
                      links |-> extract_links(post_data),
                      translation |-> None]
    IN  IF lang_code # "fi" /\ text # <<>>
        THEN LET tr == translate_to_finnish(text, translation)
             IN Some([post_info EXCEPT
                        !.translation = Some(tr[1]),
                        !.language_code = IF tr[2] # "" THEN tr[2] ELSE @])
        ELSE Some(post_info)

\* process_post_analyzed: None when quit_flag is set at line 1362, else
\* the post_info dict
process_post_analyzed(post_data, translation, profile) ==
    IF quit_flag THEN None
    ELSE
    LET text == post_data.text
        langs == post_data.langs
        lang_code == IF langs # <<>> THEN langs[1] ELSE "unknown"
        post_info == [original_text |-> text,
                      language_code |-> lang_code,
                      author_display_name |-> author_display_name(profile),
                      hashtags |-> extract_hashtags(post_data),
                      links |-> extract_links(post_data),
                      translation |-> None]
    IN  IF lang_code # "fi" /\ text # <<>>
        THEN LET tr == translate_to_finnish(text, translation)
             IN Some([post_info EXCEPT
                        !.translation = Some(tr[1]),
                        !.language_code = IF tr[2] # "" /\ tr[2] # "unknown"
                                          THEN tr[2] ELSE @])
        ELSE Some(post_info)

\* the future of loop.run_in_executor: not submitted ("idle"), submitted,
\* or returned with the value ret
Future(state) == [state |-> state, ret |-> None]

(***************************************************************************)
(* Tasks.  A task is at "done" when its coroutine returned and at          *)
(* "cancelled" when run_monitor_inner cancelled it; a task that            *)
(* run_monitor_inner did not create is "absent".                           *)
(***************************************************************************)
TaskOrder == <<"monitor", "keyboard", "flush", "live", "worker">>

Done(t) == pc[t] \in {"done", "cancelled", "absent"}

Keys == {"q", "s"}

Init ==
    /\ \E mode \in {"normal", "silent", "analyzed"} :
          /\ silent_mode = (mode = "silent")
          /\ analyzed_mode = (mode = "analyzed")
          /\ pc = [t \in {"monitor", "keyboard", "flush", "live", "worker", "main"} |->
                     CASE t = "monitor" -> "connect"
                       [] t = "keyboard" -> "poll"
                       [] t = "flush" -> "sleep"
                       [] t = "live" -> IF mode = "silent" THEN "sleep" ELSE "absent"
                       [] t = "worker" -> IF mode = "analyzed" THEN "idle" ELSE "absent"
                       [] t = "main" -> "loop"]
    /\ \E run_mode \in {"1", "2", "3"} :
          /\ run_time_limit = IF run_mode = "2" THEN Some(TimeLimit) ELSE None
          /\ run_post_limit = IF run_mode = "3" THEN Some(PostLimit) ELSE None
          /\ auto_restart \in (IF run_mode = "2" THEN BOOLEAN ELSE {TRUE})
    /\ quit_flag = FALSE
    /\ graceful_stop = FALSE
    /\ stats = Statistics(keywords, 1, 0)
    /\ archived = <<>>
    /\ log_files = LogFiles("live", 1)
    /\ fs = OpenAppend(EmptyDict, LogName("LIVE", 1))
    /\ reports = <<>>
    /\ post_queue = <<>>
    /\ enqueued = 0
    /\ current_processing_post = None
    /\ executor = Future("idle")
    /\ emitted = <<>>
    /\ stdin = <<>>
    /\ received = 0
    /\ ws_msg = <<>>
    /\ top = None
    /\ data_file = None
    /\ now = 0
    /\ drain_timed_out = FALSE
    /\ queued_at_stop = {}

(***************************************************************************)
(* The environment: the clock, the calendar and the user at the keyboard.  *)
(***************************************************************************)
\* run_monitor_inner has not started to cancel its tasks
Running == pc["main"] \in {"loop", "drain_wait"}

\* One second passes.  The clock is read only by
\* get_duration in check_run_limits, under a time limit.
Tick ==
    /\ Running
    /\ run_time_limit # None
    /\ now < MaxTime
    /\ now' = now + 1
    /\ UNCHANGED <<config, ws_msg, top, data_file, quit_flag, graceful_stop, stats, archived, log_files, fs,
                   reports, post_queue, enqueued, current_processing_post, executor,
                   emitted, stdin, received, drain_timed_out, queued_at_stop, pc>>

user_types ==
    /\ Running
    /\ Len(stdin) < MaxPending
    /\ \E k \in Keys : stdin' = Append(stdin, k)
    /\ UNCHANGED <<config, ws_msg, top, data_file, quit_flag, graceful_stop, stats, archived, log_files, fs,
                   reports, post_queue, enqueued, current_processing_post, executor,
                   emitted, received, now, drain_timed_out, queued_at_stop, pc>>

(***************************************************************************)
(* check_keyboard                                                          *)
(***************************************************************************)
\* one pass of the loop, from the wake-up of asyncio.sleep(0.05) to the next
check_keyboard ==
    /\ pc["keyboard"] = "poll"
    /\ IF quit_flag \/ graceful_stop
       THEN /\ pc' = [pc EXCEPT !["keyboard"] = "done"]
            /\ UNCHANGED <<stdin, quit_flag, graceful_stop, queued_at_stop>>
       ELSE /\ stdin # <<>>                          \* check_key_pressed() returns a key
            /\ stdin' = Tail(stdin)
            /\ quit_flag' = (Head(stdin) = "q")
            /\ graceful_stop' = (Head(stdin) = "s")
            /\ queued_at_stop' = IF Head(stdin) = "s"
                                 THEN {post_queue[i].id : i \in 1..Len(post_queue)}
                                 ELSE queued_at_stop
            /\ pc' = [pc EXCEPT !["keyboard"] =
                         IF Head(stdin) \in {"q", "s"} THEN "done" ELSE "poll"]
    /\ UNCHANGED <<config, ws_msg, top, data_file, stats, archived, log_files, fs, reports, post_queue,
                   enqueued, current_processing_post, executor, emitted,
                   received, now, drain_timed_out>>

(***************************************************************************)
(* monitor_jetstream                                                       *)
(***************************************************************************)
\* while not quit_flag and not graceful_stop and not check_run_limits()
LoopCond(g, date) ==
    IF g.quit_flag \/ graceful_stop THEN [g |-> g, cont |-> FALSE]
    ELSE LET r == check_run_limits(g, date) IN [g |-> r.g, cont |-> ~r.ret]

\* the dates datetime.now() can show in this step (line 556): the day the
\* active sink was opened, or a later one
Dates == { d \in log_files.date_str..MaxDay : TRUE }

MonitorFrame ==
    UNCHANGED <<config, ws_msg, top, data_file, graceful_stop, current_processing_post, executor, emitted,
                stdin, now, drain_timed_out, queued_at_stop>>

\* websockets.connect returns: the connection is open, the receive loop starts
monitor_connected ==
    /\ pc["monitor"] = "connect"
    /\ \E date \in Dates :
         LET r == LoopCond(Globals, date)
         IN /\ Commit(r.g)
            /\ pc' = [pc EXCEPT !["monitor"] = IF r.cont THEN "recv" ELSE "closing"]
    /\ UNCHANGED received
    /\ MonitorFrame

\* websockets.connect raises: sleep 5 s (lines 1743-1750)
monitor_connect_failed ==
    /\ pc["monitor"] = "connect"
    /\ pc' = [pc EXCEPT !["monitor"] = "backoff"]
    /\ UNCHANGED <<stats, archived, log_files, fs, reports, post_queue, enqueued,
                   quit_flag, received>>
    /\ MonitorFrame

\* lines 1719-1727: what the loop body does with the frame msg
ReceiveLoopBody(g, msg, kws, kws_lower, date) ==
    LET parsed == safe_json_loads(msg)
    IN IF parsed = None THEN g                            \* continue (line 1721)
       ELSE IF IsPostCreate(parsed[1])
       THEN check_run_limits(display_post(g, parsed[1], kws, kws_lower), date).g
       ELSE g

\* ws.recv() returns a record (lines 1718-1727), then the loop condition
monitor_recv ==
    /\ pc["monitor"] = "recv"
    /\ received < MaxMsgs
    /\ received' = received + 1
    /\ \E msg \in Messages, date \in Dates :
         LET r == LoopCond(ReceiveLoopBody(Globals, msg, keywords, keywords_lower, date),
                           date)
         IN /\ Commit(r.g)
            /\ pc' = [pc EXCEPT !["monitor"] = IF r.cont THEN "recv" ELSE "closing"]
    /\ MonitorFrame

\* asyncio.wait_for times out after 0.5 s (line 1729), then the loop condition
monitor_timeout ==
    /\ pc["monitor"] = "recv"
    /\ \E date \in Dates :
         LET r == LoopCond(check_run_limits(Globals, date).g, date)
         IN /\ Commit(r.g)
            /\ pc' = [pc EXCEPT !["monitor"] = IF r.cont THEN "recv" ELSE "closing"]
    /\ UNCHANGED received
    /\ MonitorFrame

\* ws.recv() raises ConnectionClosedError: break (line 1731)
monitor_connection_closed ==
    /\ pc["monitor"] = "recv"
    /\ pc' = [pc EXCEPT !["monitor"] = "closing"]
    /\ UNCHANGED <<stats, archived, log_files, fs, reports, post_queue, enqueued,
                   quit_flag, received>>
    /\ MonitorFrame

\* ws.recv() raises ConnectionClosedOK, the server closed the connection
\* cleanly: it is not a ConnectionClosedError, `except Exception` (line 1734)
\* takes it and the loop goes on with the same connection, where every later
\* ws.recv() raises again ("recv_closed")
monitor_connection_closed_ok ==
    /\ pc["monitor"] \in {"recv", "recv_closed"}
    /\ \E date \in Dates :
         LET r == LoopCond(Globals, date)
         IN /\ Commit(r.g)
            /\ pc' = [pc EXCEPT !["monitor"] = IF r.cont THEN "recv_closed" ELSE "closing"]
    /\ UNCHANGED received
    /\ MonitorFrame

\* the finally block and the exit of `async with` are over, or the backoff
\* sleep is: back to the outer `while not quit_flag and not graceful_stop`
monitor_outer_loop ==
    /\ pc["monitor"] \in {"closing", "backoff"}
    /\ pc' = [pc EXCEPT !["monitor"] =
                 IF quit_flag \/ graceful_stop THEN "done" ELSE "connect"]
    /\ UNCHANGED <<stats, archived, log_files, fs, reports, post_queue, enqueued,
                   quit_flag, received>>
    /\ MonitorFrame

(***************************************************************************)
(* periodic_flush and update_live_stats                                    *)
(***************************************************************************)
\* asyncio.sleep(interval) is over: flush_all, then `while not quit_flag`
periodic_flush ==
    /\ pc["flush"] = "sleep"
    /\ pc' = [pc EXCEPT !["flush"] = IF quit_flag THEN "done" ELSE "sleep"]
    /\ UNCHANGED <<config, ws_msg, top, data_file, quit_flag, graceful_stop, stats, archived, log_files, fs,
                   reports, post_queue, enqueued, current_processing_post, executor,
                   emitted, stdin, received, now, drain_timed_out, queued_at_stop>>

\* asyncio.sleep(interval) is over: `while not quit_flag`, update_rich_display
\* a display refresh that writes to the Statistics it shows
update_live_stats_Writes ==
    /\ pc["live"] = "sleep"
    /\ stats.total_posts < MaxMsgs
    /\ stats' = record_post(stats)
    /\ pc' = [pc EXCEPT !["live"] = IF quit_flag THEN "done" ELSE "sleep"]
    /\ UNCHANGED <<config, ws_msg, top, data_file, quit_flag, graceful_stop, archived, log_files, fs,
                   reports, post_queue, enqueued, current_processing_post, executor,
                   emitted, stdin, received, now, drain_timed_out, queued_at_stop>>

update_live_stats ==
    /\ pc["live"] = "sleep"
    /\ pc' = [pc EXCEPT !["live"] = IF quit_flag THEN "done" ELSE "sleep"]
    /\ UNCHANGED <<config, ws_msg, top, data_file, quit_flag, graceful_stop, stats, archived, log_files, fs,
                   reports, post_queue, enqueued, current_processing_post, executor,
                   emitted, stdin, received, now, drain_timed_out, queued_at_stop>>

(***************************************************************************)
(* process_queue_worker and the executor thread                            *)
(***************************************************************************)
WorkerState(q, cpp, ex, p) ==
    [post_queue |-> q, current_processing_post |-> cpp, executor |-> Future(ex), pc |-> p]

\* lines 1487-1500: `while not post_queue.empty()`, get_nowait, run_in_executor
DrainLoop(q) ==
    IF q # <<>> THEN WorkerState(Tail(q), Some(Head(q)), "submitted", "drain_busy")
    ELSE WorkerState(q, None, "idle", "done")

\* line 1486, after the break out of `while True`
AfterLoop(q) ==
    IF graceful_stop /\ ~quit_flag THEN DrainLoop(q)
    ELSE WorkerState(q, None, "idle", "done")

\* mutant of LoopTop: the worker leaves its loop as soon as graceful_stop is
\* set, without looking at the queue
LoopTop_StopsOnGraceful(q) ==
    IF quit_flag \/ graceful_stop THEN WorkerState(q, None, "idle", "done")
    ELSE IF q = <<>> THEN WorkerState(q, None, "idle", "idle")
    ELSE WorkerState(Tail(q), Some(Head(q)), "submitted", "busy")

\* LoopTop with a queue that hands out its newest item first
LoopTop_TakesNewest(q) ==
    IF quit_flag THEN AfterLoop(q)
    ELSE IF graceful_stop /\ q = <<>> THEN AfterLoop(q)
    ELSE IF q = <<>> THEN WorkerState(q, None, "idle", "idle")
    ELSE WorkerState(SubSeq(q, 1, Len(q) - 1), Some(q[Len(q)]), "submitted", "busy")

\* a loop that hands the head of the queue to the executor and leaves it
\* on the queue
LoopTop_LeavesTask(q) ==
    IF quit_flag THEN AfterLoop(q)
    ELSE IF graceful_stop /\ q = <<>> THEN AfterLoop(q)
    ELSE IF q = <<>> THEN WorkerState(q, None, "idle", "idle")
    ELSE WorkerState(q, Some(Head(q)), "submitted", "busy")

\* lines 1445-1471: the top of `while True` up to the next await.
\* post_queue.get(timeout=0.5) blocks the whole event loop, so it returns an
\* item exactly when the queue holds one at the call.
LoopTop(q) ==
    IF quit_flag THEN AfterLoop(q)
    ELSE IF graceful_stop /\ q = <<>> THEN AfterLoop(q)
    ELSE IF q = <<>> THEN WorkerState(q, None, "idle", "idle")
    ELSE WorkerState(Tail(q), Some(Head(q)), "submitted", "busy")

\* mutant of Displays: the main loop does not look at quit_flag either
Displays_IgnoresQuit(loop, post_info) == post_info # None

\* lines 1475 and 1504: is the result of process_post_analyzed displayed?
Displays(loop, post_info) ==
    IF loop = "busy" THEN post_info # None /\ ~quit_flag
    ELSE post_info # None

WorkerCommit(w) ==
    /\ post_queue' = w.post_queue
    /\ current_processing_post' = w.current_processing_post
    /\ executor' = w.executor
    /\ pc' = [pc EXCEPT !["worker"] = w.pc]

WorkerFrame ==
    UNCHANGED <<config, ws_msg, top, data_file, quit_flag, graceful_stop, stats, archived, log_files, fs,
                reports, enqueued, stdin, received, now, drain_timed_out,
                queued_at_stop>>

\* the worker starts, or asyncio.sleep(0.1) (line 1457) or asyncio.sleep(1)
\* (lines 1477, 1506) is over: task_done, next pass of the loop it is in
process_queue_worker_wake ==
    /\ pc["worker"] \in {"idle", "pause", "drain_pause"}
    /\ WorkerCommit(IF pc["worker"] = "drain_pause" THEN DrainLoop(post_queue)
                    ELSE LoopTop(post_queue))
    /\ UNCHANGED emitted
    /\ WorkerFrame

\* the executor thread runs process_post_analyzed with the answers that the
\* two collaborators give to this task
run_in_executor ==
    /\ executor.state = "submitted"
    /\ \E translation \in TranslationResponses, profile \in ProfileResponses :
         executor' = [state |-> "returned",
                      ret |-> process_post_analyzed(current_processing_post[1],
                                                    translation, profile)]
    /\ UNCHANGED <<config, ws_msg, top, data_file, quit_flag, graceful_stop, stats, archived, log_files, fs,
                   reports, post_queue, enqueued, current_processing_post, emitted,
                   stdin, received, now, drain_timed_out, queued_at_stop, pc>>

\* run_in_executor returns (lines 1473-1479 and 1502-1508)
process_queue_worker_result ==
    /\ pc["worker"] \in {"busy", "drain_busy"}
    /\ executor.state = "returned"
    /\ IF Displays(pc["worker"], executor.ret)
       THEN /\ emitted' = Append(emitted, current_processing_post[1].id)
            /\ WorkerCommit(WorkerState(post_queue, None, "idle",
                                IF pc["worker"] = "busy" THEN "pause" ELSE "drain_pause"))
       ELSE /\ emitted' = emitted
            /\ WorkerCommit(IF pc["worker"] = "busy" THEN LoopTop(post_queue)
                            ELSE DrainLoop(post_queue))
    /\ WorkerFrame

(***************************************************************************)
(* run_monitor_inner                                                       *)
(***************************************************************************)
MainFrame ==
    UNCHANGED <<config, ws_msg, top, data_file, quit_flag, graceful_stop, stats, archived, log_files, fs,
                reports, post_queue, enqueued, current_processing_post, executor,
                emitted, stdin, received, now, queued_at_stop>>

Pending == { i \in 1..Len(TaskOrder) : ~Done(TaskOrder[i]) }

\* lines 1780-1789: asyncio.wait of the main loop returns with a flag set
run_monitor_inner_stop ==
    /\ pc["main"] = "loop"
    /\ quit_flag \/ graceful_stop
    /\ pc' = [pc EXCEPT !["main"] =
                 IF graceful_stop /\ ~quit_flag /\ analyzed_mode /\ Pending # {}
                 THEN "drain_wait" ELSE "cancel"]
    /\ UNCHANGED drain_timed_out
    /\ MainFrame

\* line 1789: asyncio.wait(queue_task, timeout=300) returns, every task is done
run_monitor_inner_drained ==
    /\ pc["main"] = "drain_wait"
    /\ Pending = {}
    /\ pc' = [pc EXCEPT !["main"] = "cancel"]
    /\ UNCHANGED drain_timed_out
    /\ MainFrame

\* line 1789: the 300 s are over and a task is still running
run_monitor_inner_drain_timeout ==
    /\ pc["main"] = "drain_wait"
    /\ Pending # {}
    /\ drain_timed_out' = TRUE
    /\ pc' = [pc EXCEPT !["main"] = "cancel"]
    /\ MainFrame

\* lines 1791-1797: cancel the next task that is not done, and await it
run_monitor_inner_cancel ==
    /\ pc["main"] = "cancel"
    /\ Pending # {}
    /\ LET i == CHOOSE j \in Pending : \A k \in Pending : j <= k
       IN pc' = [pc EXCEPT ![TaskOrder[i]] = "cancelled"]
    /\ UNCHANGED drain_timed_out
    /\ MainFrame

run_monitor_inner_return ==
    /\ pc["main"] = "cancel"
    /\ Pending = {}
    /\ pc' = [pc EXCEPT !["main"] = "returned"]
    /\ UNCHANGED drain_timed_out
    /\ MainFrame

(***************************************************************************)
(* main                                                                    *)
(***************************************************************************)
\* lines 2244-2251: the finally block after asyncio.run
main_finally ==
    /\ pc["main"] = "returned"
    /\ stats' = finish(stats, now)
    /\ reports' = Append(reports, stats.id)
    /\ log_files' = close(log_files)
    /\ pc' = [pc EXCEPT !["main"] = "exited"]
    /\ UNCHANGED <<config, ws_msg, top, data_file, quit_flag, graceful_stop, archived, fs, post_queue, enqueued,
                   current_processing_post, executor, emitted, stdin, received, now,
                   drain_timed_out, queued_at_stop>>

(***************************************************************************)
(* Faults inside archive_logs_and_reset, called from line 1730 after an    *)
(* idle timeout: an exception leaves the function at the statement `point`.*)
(* KeyboardInterrupt (Ctrl-C, raised in place by asyncio.run before        *)
(* Python 3.11) ends asyncio.run, which cancels every task; OSError (the   *)
(* flush in close, the open in LogFiles) is caught by `except Exception`   *)
(* of monitor_jetstream, line 1747, which sleeps 5 s and reconnects.       *)
(***************************************************************************)
archive_logs_and_reset_raises ==
    /\ pc["main"] = "loop"
    /\ pc["monitor"] = "recv"
    /\ ~quit_flag
    /\ run_time_limit # None /\ auto_restart
    /\ get_duration(stats, now) >= run_time_limit[1]
    /\ \E point \in {"print_report", "close", "LogFiles"},
          kind \in {"KeyboardInterrupt", "OSError"} :
         LET finished == [Globals EXCEPT !.stats = finish(@, now)]
             reported == [finished EXCEPT !.reports = Append(@, finished.stats.id),
                                          !.log_files = close(@)]
             replaced == [reported EXCEPT
                             !.stats = Statistics(stats.keywords, stats.id + 1, now)]
         IN /\ kind = "OSError" => point # "print_report"
            /\ Commit(CASE point = "print_report" -> finished
                        [] point = "close" -> reported
                        [] point = "LogFiles" -> replaced)
            /\ pc' = IF kind = "OSError" THEN [pc EXCEPT !["monitor"] = "backoff"]
                     ELSE [t \in DOMAIN pc |->
                              IF t = "main" THEN "returned"
                              ELSE IF Done(t) THEN pc[t] ELSE "cancelled"]
    /\ UNCHANGED received
    /\ MonitorFrame

Next ==
    \/ Tick
    \/ user_types
    \/ check_keyboard
    \/ monitor_connected
    \/ monitor_connect_failed
    \/ monitor_recv
    \/ monitor_timeout
    \/ monitor_connection_closed
    \/ monitor_connection_closed_ok
    \/ monitor_outer_loop
    \/ periodic_flush
    \/ update_live_stats
    \/ process_queue_worker_wake
    \/ run_in_executor
    \/ process_queue_worker_result
    \/ run_monitor_inner_stop
    \/ run_monitor_inner_drained
    \/ run_monitor_inner_drain_timeout
    \/ run_monitor_inner_cancel
    \/ run_monitor_inner_return
    \/ main_finally

Spec == Init /\ [][Next]_vars

(***************************************************************************)
(* The filter and the worker alone: an open connection that delivers       *)
(* frames of every content, for every keyword list main can load, without  *)
(* run limits and without the keyboard.  ws_msg lists the frames that the  *)
(* loop body has handled, oldest first.                                    *)
(***************************************************************************)
\* keyword lists as typed or read from keywords.txt (lines 2057-2099): any
\* non-empty list of non-empty lines, repeated lines and "*" included
KeywordLists ==
    { << <<"a">>, <<"B">> >>,
      << <<"a">>, <<"a">> >>,
      << <<"*">> >>,
      << <<"x">>, <<"*">> >> }

\* [kw.lower() for kw in keywords]
LowerAll(kws) == [i \in 1..Len(kws) |-> lower(kws[i])]

FilterTexts == Texts \cup { <<"b">> }

Langs == { <<>>, <<"en">>, <<"fi", "en">> }

Uris ==
    [valid |-> <<"https", ":", "//", "valid.com">>,
     path |-> <<"http", ":", "//", "a.fi", "/p">>,
     ftp |-> <<"ftp", ":", "//", "a.fi">>,
     word |-> <<"not-a-valid-url">>,
     nohost |-> <<"https", ":", "/p">>,
     own |-> <<"https", ":", "//", "bsky.app", "/profile/x">>]

FacetLists ==
    { <<>>,
      << <<Tag(<<"t">>), Link(Uris.valid), Tag(<<"t">>)>> >>,
      << <<Tag(<<"T">>), Tag(<<>>), Link(Uris.word), Link(Uris.valid)>>,
         <<Tag(<<"u">>), Link(Uris.ftp), Tag(<<"T">>), Link(Uris.path), Tag(<<"t">>),
           Link(Uris.valid), Link(<<>>), Link(Uris.nohost)>> >> }

Posts == { PostCreate("ok", t, l, f) : t \in FilterTexts, l \in Langs, f \in FacetLists }

\* a post with text, language and hashtags, as carried by the frames below
SamplePost == PostCreate("ok", <<"A", "b">>, <<"en">>, << <<Tag(<<"t">>)>> >>)

Frames ==
    Posts
    \cup { PostCreate("bad_record", <<>>, <<>>, <<>>),
           PostCreate("bad_text", <<>>, <<>>, <<>>),
           [SamplePost EXCEPT !.size = 0],
           [SamplePost EXCEPT !.size = MAX_JSON_SIZE],
           [SamplePost EXCEPT !.size = MAX_JSON_SIZE + 1],
           [SamplePost EXCEPT !.valid = FALSE],
           [SamplePost EXCEPT !.kind = "identity"],
           [SamplePost EXCEPT !.operation = "delete"],
           [SamplePost EXCEPT !.collection = "app.bsky.feed.like"],
           [SamplePost EXCEPT !.facets = << <<Link(Uris.own), Link(Uris.valid)>> >>] }

\* cleanup_logs_directory: `pass`, the files of LOGS/ stay where they are
cleanup_logs_directory(files) == files

\* main from line 2055 to line 2218 of a live run that finds the files
\* `files` under LOGS/
StartOfRun(files) ==
    /\ \E mode \in {"normal", "silent", "analyzed"} :
          /\ silent_mode = (mode = "silent")
          /\ analyzed_mode = (mode = "analyzed")
          /\ pc = [t \in {"monitor", "keyboard", "flush", "live", "worker", "main"} |->
                     CASE t = "monitor" -> "recv"
                       [] t = "worker" -> IF mode = "analyzed" THEN "idle" ELSE "absent"
                       [] t = "main" -> "loop"
                       [] OTHER -> "absent"]
    /\ run_time_limit = None
    /\ run_post_limit = None
    /\ auto_restart = TRUE
    /\ quit_flag = FALSE
    /\ graceful_stop = FALSE
    /\ \E kws \in KeywordLists : stats = Statistics(kws, 1, 0)
    /\ archived = <<>>
    /\ log_files = LogFiles("live", 1)
    /\ fs = OpenAppend(cleanup_logs_directory(files), LogName("LIVE", 1))
    /\ reports = <<>>
    /\ post_queue = <<>>
    /\ enqueued = 0
    /\ current_processing_post = None
    /\ executor = Future("idle")
    /\ emitted = <<>>
    /\ stdin = <<>>
    /\ received = 0
    /\ ws_msg = <<>>
    /\ top = None
    /\ data_file = None
    /\ now = 0
    /\ drain_timed_out = FALSE
    /\ queued_at_stop = {}

\* the run finds no file under LOGS/
FilterInit == StartOfRun(EmptyDict)

\* ws.recv() returns the frame msg (lines 1718-1727), then the loop condition
filter_recv ==
    /\ pc["monitor"] = "recv"
    /\ received < MaxMsgs
    /\ received' = received + 1
    /\ \E msg \in Frames, date \in Dates :
         LET r == LoopCond(ReceiveLoopBody(Globals, msg, stats.keywords,
                                           LowerAll(stats.keywords), date), date)
         IN /\ Commit(r.g)
            /\ ws_msg' = Append(ws_msg, msg)
            /\ pc' = [pc EXCEPT !["monitor"] = IF r.cont THEN "recv" ELSE "closing"]
    /\ UNCHANGED <<config, top, data_file, graceful_stop, current_processing_post, executor,
                   emitted, stdin, now, drain_timed_out, queued_at_stop>>

\* the numbers of items asked for: the 5 of the report and of the live
\* display, and every smaller number up to MaxTop
TopSizes == (0..MaxTop) \cup {5}

\* a caller asks the Statistics object for its top n keywords and hashtags
get_top ==
    /\ \E n \in TopSizes :
         top' = Some([n |-> n,
                      keywords |-> get_top_keywords(stats, n),
                      hashtags |-> get_top_hashtags(stats, n, TRUE)])
    /\ UNCHANGED <<config, ws_msg, data_file, quit_flag, graceful_stop, stats, archived,
                   log_files, fs, reports, post_queue, enqueued, current_processing_post, executor,
                   emitted, stdin, received, now, drain_timed_out, queued_at_stop, pc>>

FilterNext ==
    \/ filter_recv
    \/ process_queue_worker_wake
    \/ run_in_executor
    \/ process_queue_worker_result

FilterSpec == FilterInit /\ [][FilterNext]_vars

\* what an earlier run of the program, here session 0, can have left under
\* LOGS/: nothing, the log of a live run or of a replay of the same day, or
\* the log of a live run of the day before
PriorLogs ==
    { EmptyDict,
      LogName("LIVE", 1) :> {0},
      LogName("FULL", 1) :> {0},
      LogName("LIVE", 0) :> {0} }

\* a fresh run started in a directory where an earlier run left its files
FreshRunInit == \E files \in PriorLogs : StartOfRun(files)

FreshRunNext == filter_recv

FreshRunSpec == FreshRunInit /\ [][FreshRunNext]_vars

\* a silent run whose Statistics object is asked for its top lists between
\* the frames
ReportInit == FilterInit /\ silent_mode

ReportNext ==
    \/ filter_recv
    \/ get_top

ReportSpec == ReportInit /\ [][ReportNext]_vars

(***************************************************************************)
(* Replay of a capture file (main with --file): prescan_data_file reads    *)
(* the file line by line, then main prints the report and closes the log.  *)
(* A line is a frame with three more fields: has_commit and has_record     *)
(* tell whether the JSON object has a key 'commit', and a key 'record' or  *)
(* 'text'; kind is "" when the object has no key 'kind'.  The shape        *)
(* "empty_record" is a record that is an empty dict.  size is the length   *)
(* of the line.                                                            *)
(***************************************************************************)
MAX_LINE_LENGTH == 100000

Line(frame, has_commit, has_record) ==
    [size |-> frame.size, valid |-> frame.valid, kind |-> frame.kind,
     operation |-> frame.operation, collection |-> frame.collection,
     shape |-> frame.shape, text |-> frame.text, langs |-> frame.langs,
     facets |-> frame.facets, has_commit |-> has_commit, has_record |-> has_record]

\* a Jetstream event: it has the keys 'kind' and 'commit'
Jetstream(frame) == Line(frame, TRUE, FALSE)

LinkedPost(text) ==
    PostCreate("ok", text, <<"en">>,
               << <<Tag(<<"t">>), Link(Uris.valid), Link(Uris.word), Link(Uris.valid),
                    Link(Uris.path)>> >>)

FileLines ==
    { Jetstream(LinkedPost(<<"A", "b">>)),
      Jetstream(LinkedPost(<<"x">>)),
      Jetstream(PostCreate("ok", <<>>, <<"en">>, << <<Tag(<<"t">>)>> >>)),
      Jetstream(PostCreate("empty_record", <<>>, <<>>, <<>>)),
      Jetstream(PostCreate("bad_record", <<>>, <<>>, <<>>)),
      Jetstream(PostCreate("bad_text", <<>>, <<>>, <<>>)),
      Jetstream([SamplePost EXCEPT !.operation = "delete"]),
      Jetstream([SamplePost EXCEPT !.collection = "app.bsky.feed.like"]),
      Line([SamplePost EXCEPT !.kind = "identity"], FALSE, FALSE),
      Line([SamplePost EXCEPT !.kind = "", !.operation = "delete"], TRUE, FALSE),
      Line([SamplePost EXCEPT !.kind = "", !.operation = "", !.collection = ""],
           FALSE, TRUE),
      Jetstream([SamplePost EXCEPT !.valid = FALSE]),
      Jetstream([SamplePost EXCEPT !.size = 0]),
      Jetstream([SamplePost EXCEPT !.size = MAX_LINE_LENGTH]),
      Jetstream([SamplePost EXCEPT !.size = MAX_LINE_LENGTH + 1]) }

\* the capture files: every sequence of at most MaxLines lines
DataFiles == UNION { [1..n -> FileLines] : n \in 0..MaxLines }

\* for _ in links: stats_obj.record_url()
RECURSIVE RecordUrls(_, _)
RecordUrls(s, links) ==
    IF links = <<>> THEN s ELSE RecordUrls(record_url(s), Tail(links))

\* lines 655-672: the record that the format of the line designates, None
\* when the line is of no known format or not the creation of a post
RecordOf(data) ==
    IF data.kind = "commit"
    THEN (IF data.operation = "create" /\ data.collection = "app.bsky.feed.post"
          THEN Some(data) ELSE None)
    ELSE IF data.has_commit THEN Some(data)
    ELSE IF data.has_record THEN Some(data)
    ELSE None

\* prescan_data_file: the body of `for line in f` (lines 640-714); an
\* exception is swallowed by the `except Exception: continue` of the loop
PrescanLine(g, line, kws, kws_lower) ==
    IF line.size = 0 THEN g                          \* blank line
    ELSE IF line.size > MAX_LINE_LENGTH THEN g
    ELSE
    LET parsed == safe_json_loads(line)
    IN IF parsed = None THEN g
       ELSE
       LET record == RecordOf(parsed[1])
       IN IF record = None \/ line.shape = "empty_record" THEN g    \* `if record:`
          ELSE IF line.shape = "bad_record" THEN g   \* record.get raises (line 675)
          ELSE
          LET text == line.text
              hashtags == extract_hashtags(line)
              g1 == [g EXCEPT !.stats = record_post(@)]
              g2 == IF hashtags # <<>>
                    THEN [g1 EXCEPT !.stats = record_all_hashtags(@, hashtags)]
                    ELSE g1
          IN IF line.shape = "bad_text" THEN g2      \* text.lower() raises (line 698)
             ELSE IF text = <<>> THEN g2
             ELSE
             LET text_lower == lower(text)
                 matched == IF HasWildcard(kws) THEN TRUE
                            ELSE \E i \in 1..Len(kws_lower) :
                                    Contains(kws_lower[i], text_lower)
                 counted == record_displayed(record_language(g2.stats, line.langs),
                                             text_lower, kws)
                 tagged == IF hashtags # <<>> THEN record_hashtags(counted, hashtags)
                           ELSE counted
             IN IF ~matched THEN g2
                ELSE [g2 EXCEPT !.stats = RecordUrls(tagged, extract_links(line)),
                                !.fs = log_all(@, g.log_files, g.stats.id)]

\* main with --file, up to the call of prescan_data_file (lines 2213-2223)
ReplayInit ==
    /\ silent_mode = TRUE
    /\ analyzed_mode = FALSE
    /\ pc = [t \in {"monitor", "keyboard", "flush", "live", "worker", "main"} |->
              IF t = "main" THEN "prescan" ELSE "absent"]
    /\ run_time_limit = None
    /\ run_post_limit = None
    /\ auto_restart = TRUE
    /\ quit_flag = FALSE
    /\ graceful_stop = FALSE
    /\ \E kws \in KeywordLists : stats = Statistics(kws, 1, 0)
    /\ archived = <<>>
    /\ log_files = LogFiles("file", 1)
    /\ fs = OpenAppend(EmptyDict, LogName("FULL", 1))
    /\ reports = <<>>
    /\ post_queue = <<>>
    /\ enqueued = 0
    /\ current_processing_post = None
    /\ executor = Future("idle")
    /\ emitted = <<>>
    /\ stdin = <<>>
    /\ received = 0
    /\ ws_msg = <<>>
    /\ top = None
    /\ \E lines \in DataFiles : data_file = Some([lines |-> lines, read |-> 0])
    /\ now = 0
    /\ drain_timed_out = FALSE
    /\ queued_at_stop = {}

\* prescan_data_file: one turn of `for line in f`
prescan_data_file ==
    /\ pc["main"] = "prescan"
    /\ data_file[1].read < Len(data_file[1].lines)
    /\ LET line == data_file[1].lines[data_file[1].read + 1]
       IN Commit(PrescanLine(Globals, line, stats.keywords, LowerAll(stats.keywords)))
    /\ data_file' = Some([data_file[1] EXCEPT !.read = @ + 1])
    /\ UNCHANGED <<config, ws_msg, top, graceful_stop, current_processing_post, executor,
                   emitted, stdin, received, now, drain_timed_out, queued_at_stop, pc>>

\* prescan_data_file returns at the end of the file; main finishes the
\* statistics, prints the report and closes the log (lines 2224-2228)
main_file_report ==
    /\ pc["main"] = "prescan"
    /\ data_file[1].read = Len(data_file[1].lines)
    /\ stats' = finish(stats, now)
    /\ reports' = Append(reports, stats.id)
    /\ log_files' = close(log_files)
    /\ pc' = [pc EXCEPT !["main"] = "exited"]
    /\ UNCHANGED <<config, ws_msg, top, data_file, quit_flag, graceful_stop, archived, fs,
                   post_queue, enqueued, current_processing_post, executor, emitted,
                   stdin, received, now, drain_timed_out, queued_at_stop>>

ReplayNext ==
    \/ prescan_data_file
    \/ main_file_report

ReplaySpec == ReplayInit /\ [][ReplayNext]_vars

(***************************************************************************)
(* The replay monitor: run_file_monitor feeds the lines of a capture file  *)
(* to display_post (process_json_log_file) next to the keyboard poller,    *)
(* the display refresh and the worker.  data_file holds the lines, the     *)
(* number of lines read and line_count.                                    *)
(***************************************************************************)
\* `if line_count % 100 == 0: await asyncio.sleep(0.01)` (line 1947)
LINES_PER_YIELD == 100

\* lines 1918-1943: what one turn of the loop does with a parsed line
ReplayLine(g, parsed, kws, kws_lower) ==
    IF parsed.kind = "commit"
    THEN (IF parsed.operation = "create" /\ parsed.collection = "app.bsky.feed.post"
          THEN display_post(g, parsed, kws, kws_lower) ELSE g)
    ELSE IF parsed.has_commit THEN display_post(g, parsed, kws, kws_lower)
    ELSE IF parsed.has_record THEN display_post(g, parsed, kws, kws_lower)
    ELSE g

\* the lines the loop does not `continue` on: neither blank, nor too long,
\* nor refused by safe_json_loads; line_count counts them
Counted(line) ==
    line.size # 0 /\ line.size <= MAX_LINE_LENGTH /\ safe_json_loads(line) # None

\* the counted lines that the loop hands to display_post
HandedOn(line) ==
    /\ Counted(line)
    /\ IF line.kind = "commit"
       THEN line.operation = "create" /\ line.collection = "app.bsky.feed.post"
       ELSE line.has_commit \/ line.has_record

\* lines 1901-1948: the loop of process_json_log_file from one suspension to
\* the next; the flags cannot change in between.  At the end of the file the
\* function sets quit_flag (line 1907).  The turns of the loop that call
\* nothing are taken together: the loop goes on to the next line that is
\* handed to display_post or that brings line_count to a multiple of 100.
RECURSIVE ReadLines(_, _, _, _)
ReadLines(g, f, kws, kws_lower) ==
    LET CountedTo(i) ==
            f.line_count + Cardinality({ j \in (f.read + 1)..i : Counted(f.lines[j]) })
        stops == { i \in (f.read + 1)..Len(f.lines) :
                     \/ HandedOn(f.lines[i])
                     \/ Counted(f.lines[i]) /\ CountedTo(i) % LINES_PER_YIELD = 0 }
    IN IF stops = {}
       THEN [g |-> [g EXCEPT !.quit_flag = TRUE],
             f |-> [f EXCEPT !.read = Len(f.lines), !.line_count = CountedTo(Len(f.lines))],
             pc |-> "done"]
       ELSE LET i == CHOOSE k \in stops : \A l \in stops : k <= l
                g1 == ReplayLine(g, safe_json_loads(f.lines[i])[1], kws, kws_lower)
                f1 == [f EXCEPT !.read = i, !.line_count = CountedTo(i)]
            IN IF f1.line_count % LINES_PER_YIELD = 0
               THEN [g |-> g1, f |-> f1, pc |-> "read"]            \* asyncio.sleep
               ELSE ReadLines(g1, f1, kws, kws_lower)

\* a commit event that is no post: counted as a line, not handed on
NoPostLine == Jetstream([SamplePost EXCEPT !.operation = "delete"])

\* capture files long enough for process_json_log_file to suspend: a post
\* before the suspension, or a post after it
LongFiles ==
    { [i \in 1..LINES_PER_YIELD |->
          IF i = 1 THEN Jetstream(LinkedPost(<<"A", "b">>)) ELSE NoPostLine],
      [i \in 1..(LINES_PER_YIELD + 1) |->
          IF i <= LINES_PER_YIELD THEN NoPostLine ELSE Jetstream(LinkedPost(<<"A", "b">>))] }

\* the call of run_file_monitor with a fresh Statistics and log sink
FileMonitorInit ==
    /\ \E mode \in {"normal", "silent", "analyzed"} :
          /\ silent_mode = (mode = "silent")
          /\ analyzed_mode = (mode = "analyzed")
          /\ pc = [t \in {"monitor", "keyboard", "flush", "live", "worker", "main"} |->
                     CASE t = "monitor" -> "start"
                       [] t = "keyboard" -> "poll"
                       [] t = "flush" -> "absent"
                       [] t = "live" -> IF mode = "silent" THEN "sleep" ELSE "absent"
                       [] t = "worker" -> IF mode = "analyzed" THEN "idle" ELSE "absent"
                       [] t = "main" -> "loop"]
    /\ run_time_limit = None
    /\ run_post_limit = None
    /\ auto_restart = TRUE
    /\ quit_flag = FALSE
    /\ graceful_stop = FALSE
    /\ \E kws \in KeywordLists : stats = Statistics(kws, 1, 0)
    /\ archived = <<>>
    /\ log_files = LogFiles("file", 1)
    /\ fs = OpenAppend(EmptyDict, LogName("FULL", 1))
    /\ reports = <<>>
    /\ post_queue = <<>>
    /\ enqueued = 0
    /\ current_processing_post = None
    /\ executor = Future("idle")
    /\ emitted = <<>>
    /\ stdin = <<>>
    /\ received = 0
    /\ ws_msg = <<>>
    /\ top = None
    /\ \E lines \in DataFiles \cup LongFiles :
          data_file = Some([lines |-> lines, read |-> 0, line_count |-> 0])
    /\ now = 0
    /\ drain_timed_out = FALSE
    /\ queued_at_stop = {}

\* process_json_log_file: from its start, or from the test of its loop, to
\* its next suspension
process_json_log_file ==
    /\ pc["monitor"] \in {"start", "read"}
    /\ IF quit_flag \/ graceful_stop
       THEN /\ pc' = [pc EXCEPT !["monitor"] = "done"]
            /\ UNCHANGED <<stats, archived, log_files, fs, reports, post_queue, enqueued,
                           quit_flag, data_file>>
       ELSE LET r == ReadLines(Globals, data_file[1], stats.keywords,
                               LowerAll(stats.keywords))
            IN /\ Commit(r.g)
               /\ data_file' = Some(r.f)
               /\ pc' = [pc EXCEPT !["monitor"] = r.pc]
    /\ UNCHANGED <<config, ws_msg, top, graceful_stop, current_processing_post, executor,
                   emitted, stdin, received, now, drain_timed_out, queued_at_stop>>

\* asyncio.gather returns when every task has ended (line 1976)
run_file_monitor_return ==
    /\ pc["main"] = "loop"
    /\ \A t \in {"monitor", "keyboard", "live", "worker"} : pc[t] \in {"done", "absent"}
    /\ pc' = [pc EXCEPT !["main"] = "returned"]
    /\ UNCHANGED drain_timed_out
    /\ MainFrame

\* the steps of the tasks of run_file_monitor: the event loop starts the
\* tasks in the order of their creation (lines 1966-1974), so that
\* process_json_log_file runs to its first suspension before the others
FileMonitorStep ==
    \/ process_json_log_file
    \/ /\ pc["monitor"] # "start"
       /\ \/ check_keyboard
          \/ update_live_stats
          \/ process_queue_worker_wake
          \/ run_in_executor
          \/ process_queue_worker_result
          \/ run_file_monitor_return

FileMonitorNext ==
    \/ user_types
    \/ FileMonitorStep

FileMonitorSpec == FileMonitorInit /\ [][FileMonitorNext]_vars

\* the same program in an environment where archive_logs_and_reset can raise
FaultNext ==
    \/ Next
    \/ archive_logs_and_reset_raises

FaultSpec == Init /\ [][FaultNext]_vars

(***************************************************************************)
(* Properties                                                              *)
(***************************************************************************)
Emitted == { emitted[i] : i \in 1..Len(emitted) }

Returned == pc["main"] = "returned"

\* C1 (as stated): when run_monitor_inner has returned after a GRACEFUL stop
\* in analyzed mode, every task that was in the queue when the stop was
\* requested has been emitted, whatever the queue length and the latency.
C1_DrainsWhateverTheLatency ==
    (Returned /\ analyzed_mode /\ graceful_stop) => queued_at_stop \subseteq Emitted

\* C1 (amended): when run_monitor_inner has returned after a GRACEFUL stop in
\* analyzed mode, no IMMEDIATE stop was set, and the worker left its loop by
\* itself (it was not cancelled after the 300 s wait), every task that was
\* in the queue when the stop was requested has been emitted.
C1_GracefulDrain ==
    (Returned /\ analyzed_mode /\ graceful_stop /\ ~quit_flag /\ pc["worker"] = "done")
        => queued_at_stop \subseteq Emitted

C1_Witness ==
    /\ Returned /\ analyzed_mode /\ graceful_stop /\ ~quit_flag
    /\ pc["worker"] = "done"
    /\ Cardinality(queued_at_stop) >= 2
    /\ queued_at_stop \subseteq Emitted

\* C2 (as stated): once graceful_stop is set, no step changes total_posts or
\* displayed_posts or puts a task on the queue.
C2_NoIngestionAfterGraceful ==
    [][graceful_stop =>
          /\ stats'.total_posts = stats.total_posts
          /\ stats'.displayed_posts = stats.displayed_posts
          /\ enqueued' = enqueued]_vars

\* C3: once quit_flag is set, no annotated post is emitted any more.
C3_NoEmissionAfterQuit ==
    [][quit_flag => emitted' = emitted]_vars

\* quit_flag is set, the worker has stopped with a task left in the queue and
\* the result of a task it had taken was discarded
C3_Witness ==
    /\ quit_flag
    /\ pc["worker"] = "done"
    /\ post_queue # <<>>
    /\ current_processing_post = None
    /\ Len(emitted) + Len(post_queue) < enqueued

\* C4 (as stated): when run_monitor_inner returns after a GRACEFUL stop and a
\* "q" was typed while the worker was draining (it is still unread and tasks
\* are still queued), the stop has escalated: quit_flag is set.
C4_ImmediateEscalates ==
    (/\ Returned /\ graceful_stop
     /\ stdin # <<>> /\ Head(stdin) = "q"
     /\ post_queue # <<>>) => quit_flag

\* C5 (as stated): a GRACEFUL stop requested with an empty queue lets
\* run_monitor_inner return without its 300 s drain wait expiring.
C5_EmptyQueueStopsAtOnce ==
    (Returned /\ graceful_stop /\ ~quit_flag /\ queued_at_stop = {}) => ~drain_timed_out

\* a step of display_post that matches a post in analyzed mode
MatchedPostStep ==
    /\ analyzed_mode
    /\ stats'.id = stats.id
    /\ stats'.displayed_posts = stats.displayed_posts + 1

\* C6 (as stated): a matched post that arrives while the queue holds
\* capacity-many tasks is dropped, the queue size stays the same.
C6_OverflowIsDropped ==
    [][(MatchedPostStep /\ Len(post_queue) >= SpecCapacity)
          => (Len(post_queue') = Len(post_queue) /\ enqueued' = enqueued)]_vars

\* C7 (as stated): the queue never holds more tasks than the capacity.
C7_QueueBounded == Len(post_queue) <= SpecCapacity

\* C8: displayed_posts <= total_posts in every state, and a step that stays
\* in the session raises total_posts by at most one, by exactly one when it
\* raises displayed_posts.
C8_MatchedAtMostTotal ==
    /\ [](stats.displayed_posts <= stats.total_posts)
    /\ [][stats'.id = stats.id =>
             /\ stats'.total_posts \in {stats.total_posts, stats.total_posts + 1}
             /\ stats'.displayed_posts \in {stats.displayed_posts, stats.displayed_posts + 1}
             /\ stats'.displayed_posts # stats.displayed_posts
                   => stats'.total_posts = stats.total_posts + 1]_vars

\* a later session that has counted matched and unmatched posts
C8_Witness ==
    /\ stats.id > 1
    /\ stats.displayed_posts > 0
    /\ stats.total_posts > stats.displayed_posts

\* a step in which check_run_limits runs and finds elapsed >= limit
LimitObserved ==
    /\ \/ monitor_timeout
       \/ monitor_recv /\ ~graceful_stop
       \/ monitor_connected /\ ~graceful_stop
    /\ ~quit_flag
    /\ run_time_limit # None /\ auto_restart
    /\ get_duration(stats, now) >= run_time_limit[1]

\* C9: in a time-limited run with auto-restart, the step that observes
\* elapsed >= limit ends the old Statistics once and makes a new one with
\* zero counters and the same keywords the active one, and the receive loop
\* stays on its connection; no archived session is finished more than once.
C9_ArchiveAndReset ==
    /\ [][LimitObserved =>
             /\ stats' = Statistics(stats.keywords, stats.id + 1, now)
             /\ Len(archived') = Len(archived) + 1
             /\ SubSeq(archived', 1, Len(archived)) = archived
             /\ archived'[Len(archived')].id = stats.id
             /\ archived'[Len(archived')].ended
             /\ archived'[Len(archived')].finish_calls = 1
             /\ stats.finish_calls = 0
             /\ ~graceful_stop => pc'["monitor"] = "recv"]_vars
    /\ [](\A i \in 1..Len(archived) : archived[i].finish_calls = 1 /\ archived[i].ended)

\* a session was archived and the receive loop counted a post in the new one
C9_Witness ==
    /\ archived # <<>>
    /\ stats.id = Len(archived) + 1
    /\ stats.total_posts > 0
    /\ pc["monitor"] = "recv"

\* files under LOGS that are not log files
ReportFiles == { f \in DOMAIN fs : f.prefix \notin {"LIVE", "FULL"} }

\* C10 (as stated): once a session is archived a report file exists, the
\* logs of the archived session are in a directory of their own, and the
\* active sink is not the file of an archived session.
C10_ArchiveKeepsSessionsApart ==
    \A i \in 1..Len(archived) :
        /\ ReportFiles # {}
        /\ archived[i].log_files.all_filename.dir # "LOGS"
        /\ archived[i].log_files.all_filename # log_files.all_filename

\* C11: in a post-limited run displayed_posts never exceeds the limit, the
\* state in which it has reached the limit has quit_flag set (TERMINATED),
\* no later step matches a post, and no session is ever archived or opened,
\* although auto_restart is set.
C11_PostLimitTerminates ==
    /\ [](run_post_limit # None =>
             /\ stats.displayed_posts <= run_post_limit[1]
             /\ stats.displayed_posts >= run_post_limit[1] => quit_flag
             /\ archived = <<>> /\ stats.id = 1)
    /\ [][(run_post_limit # None /\ stats.displayed_posts >= run_post_limit[1])
             => /\ stats'.displayed_posts = stats.displayed_posts
                /\ stats'.total_posts = stats.total_posts
                /\ stats'.keyword_counts = stats.keyword_counts
                /\ pc["monitor"] # "recv"]_vars

\* the limit was reached with records still to come and auto_restart set, and
\* run_monitor_inner has returned
C11_Witness ==
    /\ run_post_limit # None /\ auto_restart
    /\ stats.displayed_posts = run_post_limit[1]
    /\ received < MaxMsgs
    /\ quit_flag /\ Returned

\* a time limit is set, elapsed >= limit, and no stop is requested
LimitElapsed ==
    /\ run_time_limit # None
    /\ get_duration(stats, now) >= run_time_limit[1]
    /\ ~quit_flag /\ ~graceful_stop

\* C12 (as stated): with elapsed >= limit, every wake-up of the live adapter
\* acts on the limit (a fresh session is opened or quit_flag is set), be it
\* connected (a record, an idle timeout) or failing to reconnect (a failed
\* connection attempt, the end of a backoff sleep).
C12_LimitActsWhateverTheConnection ==
    [][(/\ LimitElapsed
        /\ \/ monitor_recv
           \/ monitor_timeout
           \/ monitor_connect_failed
           \/ pc["monitor"] = "backoff" /\ monitor_outer_loop)
          => (quit_flag' \/ stats'.id = stats.id + 1)]_vars

Exited == pc["main"] = "exited"

\* the number of times the report of session id was printed
ReportCount(id) == Cardinality({ i \in 1..Len(reports) : reports[i] = id })

\* C13 (as stated): when main has left its finally block, the active
\* Statistics is finalized, the active log sink is closed, and the report of
\* every session of the run has been printed exactly once.
C13_FinalizedAndReportedOnce ==
    Exited => /\ stats.end_time # None
              /\ log_files.closed
              /\ \A id \in 1..stats.id : ReportCount(id) = 1

\* C14 (as stated): when ws.recv() raises because the connection is closed,
\* by an abnormal close or by a clean close of the server, the adapter
\* leaves the receive loop of that connection, on its way to a new
\* connection attempt.
C14_ReconnectsAfterAnyClose ==
    [][(monitor_connection_closed \/ monitor_connection_closed_ok)
          => pc'["monitor"] = "closing"]_vars

(***************************************************************************)
(* Failure of a collaborator of the worker                                 *)
(***************************************************************************)
\* the post_info dict shows that the translation request failed: the
\* translation is the text itself
TranslationFailed(post_info) == post_info.translation = Some(post_info.original_text)

\* the post_info dict shows that the profile lookup failed
ProfileFailed(post_info) == post_info.author_display_name = "did"

\* record.langs[0], 'unknown' for a post that declares no language
DeclaredLanguage(post_data) ==
    IF post_data.langs # <<>> THEN post_data.langs[1] ELSE "unknown"

Last(seq) == seq[Len(seq)]

\* the frame is empty, oversized or not JSON
Unparsable(m) == m.size = 0 \/ m.size > MAX_JSON_SIZE \/ ~m.valid

\* the frame is a post-create event
IsPost(m) ==
    /\ ~Unparsable(m)
    /\ m.kind = "commit" /\ m.operation = "create"
    /\ m.collection = "app.bsky.feed.post"

\* a post-create event whose record or text makes display_post raise
Malformed(m) == IsPost(m) /\ m.shape \in {"bad_record", "bad_text"}

\* a post-create event with a dict record and a string text
WellFormed(m) == IsPost(m) /\ m.shape = "ok"

\* keyword k is a case-insensitive substring of text
KeywordIn(k, text) == Contains(lower(k), lower(text))

\* the post text matches the keyword list kws
Matches(text, kws) ==
    \/ \E i \in 1..Len(kws) : kws[i] = <<"*">>
    \/ \E i \in 1..Len(kws) : KeywordIn(kws[i], text)

\* d[k] of a defaultdict(int)
CountOf(d, k) == IF k \in DOMAIN d THEN d[k] ELSE 0

\* C16: a post whose processing raises is skipped (it is not matched and
\* not enqueued) and the receive loop goes on; the post received right after
\* it is counted, and matched exactly when its text matches the keywords.
C16_BadPostIsSkipped ==
    [][filter_recv =>
         LET m == Last(ws_msg')
         IN /\ Malformed(m) =>
                 /\ stats'.displayed_posts = stats.displayed_posts
                 /\ stats'.keyword_counts = stats.keyword_counts
                 /\ post_queue' = post_queue
                 /\ pc'["monitor"] = "recv"
            /\ (ws_msg # <<>> /\ Malformed(Last(ws_msg)) /\ WellFormed(m)) =>
                 /\ stats'.total_posts = stats.total_posts + 1
                 /\ stats'.displayed_posts = stats.displayed_posts
                      + (IF m.text # <<>> /\ Matches(m.text, stats.keywords)
                         THEN 1 ELSE 0)]_vars

\* a post with a malformed text was received, then a post that matches
C16_Witness ==
    /\ Len(ws_msg) = 2
    /\ Malformed(ws_msg[1]) /\ ws_msg[1].shape = "bad_text"
    /\ WellFormed(ws_msg[2]) /\ Matches(ws_msg[2].text, stats.keywords)
    /\ stats.total_posts = 2
    /\ stats.displayed_posts = 1
    /\ pc["monitor"] = "recv"

\* C17: a frame that is empty, larger than MAX_JSON_SIZE or not JSON changes
\* no counter of the Statistics object, puts nothing in the queue and leaves
\* the receive loop running.
C17_UnparsableIsDropped ==
    [][(filter_recv /\ Unparsable(Last(ws_msg')))
          => /\ stats' = stats
             /\ post_queue' = post_queue
             /\ enqueued' = enqueued
             /\ fs' = fs
             /\ pc'["monitor"] = "recv"]_vars

\* an oversized frame that holds a matching post was received and dropped,
\* and the frame after it was processed
C17_Witness ==
    /\ Len(ws_msg) = 2
    /\ ws_msg[1].size = MAX_JSON_SIZE + 1
    /\ ws_msg[1].valid /\ Matches(ws_msg[1].text, stats.keywords)
    /\ WellFormed(ws_msg[2]) /\ ws_msg[2].size = MAX_JSON_SIZE
    /\ stats.total_posts = 1
    /\ stats.displayed_posts = 1

\* the keyword list holds no "*"
NoWildcard(kws) == \A i \in 1..Len(kws) : kws[i] # <<"*">>

\* C18: for a well-formed post with non-empty text and a keyword list
\* without wildcard, keyword_counts[k] grows by exactly 1 for every
\* configured keyword k that is a case-insensitive substring of the text
\* and by 0 for every other keyword, and displayed_posts grows by 1 if some
\* keyword matches and by 0 otherwise.
C18_KeywordCountsFollowMatches ==
    [][(/\ filter_recv
        /\ WellFormed(Last(ws_msg')) /\ Last(ws_msg').text # <<>>
        /\ NoWildcard(stats.keywords))
          => LET text == Last(ws_msg').text
                 kws == stats.keywords
             IN /\ \A i \in 1..Len(kws) :
                      CountOf(stats'.keyword_counts, kws[i])
                        = CountOf(stats.keyword_counts, kws[i])
                          + (IF KeywordIn(kws[i], text) THEN 1 ELSE 0)
                /\ stats'.displayed_posts
                      = stats.displayed_posts
                        + (IF \E i \in 1..Len(kws) : KeywordIn(kws[i], text)
                           THEN 1 ELSE 0)]_vars

\* C19: with "*" in the keyword list every well-formed post with non-empty
\* text is matched, whatever the text, and with any keyword list a post with
\* empty text is counted in total_posts but never matched.
C19_WildcardMatchesEveryText ==
    [][(filter_recv /\ WellFormed(Last(ws_msg')))
          => LET m == Last(ws_msg')
             IN /\ (~NoWildcard(stats.keywords) /\ m.text # <<>>)
                     => stats'.displayed_posts = stats.displayed_posts + 1
                /\ m.text = <<>>
                     => /\ stats'.displayed_posts = stats.displayed_posts
                        /\ stats'.total_posts = stats.total_posts + 1
                        /\ post_queue' = post_queue]_vars

\* under the wildcard alone a post with empty text and then a post whose
\* text holds no "*" were received: the second one is matched
C19_Witness ==
    /\ stats.keywords = << <<"*">> >>
    /\ Len(ws_msg) = 2
    /\ WellFormed(ws_msg[1]) /\ ws_msg[1].text = <<>>
    /\ WellFormed(ws_msg[2]) /\ ws_msg[2].text = <<"x">>
    /\ stats.total_posts = 2
    /\ stats.displayed_posts = 1

(***************************************************************************)
(* Hashtags and links of one post                                          *)
(***************************************************************************)
\* the features of all the facets of a record, in the order of the record
RECURSIVE Flatten(_)
Flatten(facets) == IF facets = <<>> THEN <<>> ELSE Head(facets) \o Flatten(Tail(facets))

\* the non-empty values of the features of one type, as a list and as a set
ValuesOf(type, record) ==
    LET IsOne(f) == f.type = type /\ f.value # <<>>
        features == SelectSeq(Flatten(record.facets), IsOne)
    IN [i \in 1..Len(features) |-> features[i].value]

Range(seq) == { seq[i] : i \in 1..Len(seq) }

\* the place of the first occurrence of x in seq
FirstIndex(x, seq) == CHOOSE i \in 1..Len(seq) : seq[i] = x /\ \A j \in 1..(i - 1) : seq[j] # x

\* a valid http or https URL: such a scheme, and a host after "//"
ValidHttpUrl(u) ==
    /\ Len(u) >= 4
    /\ u[1] \in {"http", "https"} /\ u[2] = ":" /\ u[3] = "//" /\ u[4] # ""

\* result holds each value of values that satisfies Keep exactly once, in
\* the order in which these values first occur in values
DistinctInOrder(result, values, Keep(_)) ==
    /\ Range(result) = { v \in Range(values) : Keep(v) }
    /\ \A i, j \in 1..Len(result) :
          i < j => /\ result[i] # result[j]
                   /\ FirstIndex(result[i], values) < FirstIndex(result[j], values)

AnyValue(v) == TRUE

\* the number of distinct hashtags of the record that str.lower maps to h
TagsLoweredTo(h, record) ==
    Cardinality({ v \in Range(ValuesOf("tag", record)) : lower(v) = h })

AllCounterKeys(record) ==
    DOMAIN stats.all_hashtag_counts \cup { lower(v) : v \in Range(ValuesOf("tag", record)) }

\* C20: the hashtags and links that process_post_analyzed puts in post_info
\* hold each distinct value of the post once, in order of first occurrence,
\* the links only if they are valid http/https URLs; and every processed post
\* adds one to the stream-wide hashtag counter for each of its distinct
\* hashtags, however often the post repeats it and whatever earlier posts
\* held (and likewise to the matched-post hashtag counter when it matches).
C20_DistinctPerPost ==
    [][/\ run_in_executor =>
            LET record == current_processing_post[1]
                post_info == executor'.ret[1]
            IN /\ DistinctInOrder(post_info.hashtags, ValuesOf("tag", record), AnyValue)
               /\ DistinctInOrder(post_info.links, ValuesOf("link", record),
                                  ValidHttpUrl)
       /\ (filter_recv /\ WellFormed(Last(ws_msg'))) =>
            LET record == Last(ws_msg')
                matched == stats'.displayed_posts # stats.displayed_posts
            IN \A h \in AllCounterKeys(record) :
                 /\ CountOf(stats'.all_hashtag_counts, h)
                      = CountOf(stats.all_hashtag_counts, h) + TagsLoweredTo(h, record)
                 /\ CountOf(stats'.hashtag_counts, h)
                      = CountOf(stats.hashtag_counts, h)
                        + (IF matched THEN TagsLoweredTo(h, record) ELSE 0)]_vars

\* two posts with the same repeated hashtags and links were received, the
\* hashtag "u" was counted once for each of them, and the worker holds the
\* post_info of one of them
C20_Witness ==
    /\ Len(ws_msg) = 2
    /\ WellFormed(ws_msg[1]) /\ WellFormed(ws_msg[2])
    /\ ws_msg[1].facets = ws_msg[2].facets
    /\ Len(Flatten(ws_msg[1].facets)) = 12
    /\ CountOf(stats.all_hashtag_counts, <<"u">>) = 2
    /\ CountOf(stats.hashtag_counts, <<"u">>) = 2
    /\ executor.state = "returned"
    /\ executor.ret # None
    /\ executor.ret[1].hashtags = << <<"T">>, <<"u">>, <<"t">> >>
    /\ executor.ret[1].links = <<Uris.valid, Uris.path>>

(***************************************************************************)
(* The top lists of a Statistics object                                    *)
(***************************************************************************)
\* the place of the first occurrence of keyword kw in the keyword list
Declared(kw, kws) == CHOOSE i \in 1..Len(kws) : kws[i] = kw /\ \A j \in 1..(i - 1) : kws[j] # kw

\* the entries of the keyword list whose count is positive
PositiveEntries(s) ==
    { i \in 1..Len(s.keywords) : CountOf(s.keyword_counts, s.keywords[i]) > 0 }

Min(a, b) == IF a < b THEN a ELSE b

\* C21: get_top_keywords(n) returns at most n pairs (keyword, count), each
\* of a configured keyword with its count, which is positive; the counts
\* descend and keywords with equal counts come in the order of the keyword
\* list; no keyword left out has a larger count than one returned.
\* get_top_hashtags(n) returns the n hashtags with the highest counts (all of
\* them if there are fewer), each once with its count, the counts descending.
C21_TopLists ==
    [][get_top =>
         LET n == top'[1].n
             kw == top'[1].keywords
             ht == top'[1].hashtags
             kws == stats.keywords
         IN /\ Len(kw) = Min(n, Cardinality(PositiveEntries(stats)))
            /\ \A i \in 1..Len(kw) :
                  /\ \E k \in 1..Len(kws) : kws[k] = kw[i][1]
                  /\ kw[i][2] = CountOf(stats.keyword_counts, kw[i][1])
                  /\ kw[i][2] > 0
            /\ \A i, j \in 1..Len(kw) :
                  i < j => /\ kw[i][2] >= kw[j][2]
                           /\ kw[i][2] = kw[j][2]
                                => Declared(kw[i][1], kws) <= Declared(kw[j][1], kws)
            /\ \A k \in PositiveEntries(stats) :
                  (\A i \in 1..Len(kw) : kw[i][1] # kws[k])
                     => \A i \in 1..Len(kw) : kw[i][2] >= stats.keyword_counts[kws[k]]
            /\ Len(ht) = Min(n, Cardinality(DOMAIN stats.hashtag_counts))
            /\ \A i \in 1..Len(ht) :
                  /\ ht[i][1] \in DOMAIN stats.hashtag_counts
                  /\ ht[i][2] = stats.hashtag_counts[ht[i][1]]
            /\ \A i, j \in 1..Len(ht) :
                  i < j => ht[i][1] # ht[j][1] /\ ht[i][2] >= ht[j][2]
            /\ \A h \in DOMAIN stats.hashtag_counts :
                  (\A i \in 1..Len(ht) : ht[i][1] # h)
                     => \A i \in 1..Len(ht) : ht[i][2] >= stats.hashtag_counts[h]]_vars

\* with keywords ['a', 'B'] counted 1 and 1, and hashtags 't' and 'u' counted
\* 2 and 1, one item was asked for: the first keyword and the hashtag 't'
C21_Witness ==
    /\ top # None
    /\ top[1].n = 1
    /\ stats.keywords = << <<"a">>, <<"B">> >>
    /\ CountOf(stats.keyword_counts, <<"a">>) = 1
    /\ CountOf(stats.keyword_counts, <<"B">>) = 1
    /\ top[1].keywords = << << <<"a">>, 1 >> >>
    /\ CountOf(stats.hashtag_counts, <<"u">>) = 1
    /\ top[1].hashtags = << << <<"t">>, 2 >> >>

(***************************************************************************)
(* Replay of a capture file                                                *)
(***************************************************************************)
\* the line is a post-create event: kind commit, operation create, on the
\* post collection
IsPostCreateLine(line) ==
    /\ line.kind = "commit"
    /\ line.operation = "create"
    /\ line.collection = "app.bsky.feed.post"

\* the line is well-formed: JSON, not blank, of a length the reader takes,
\* and with a record that is a dict with a string text
WellFormedLine(line) ==
    /\ line.valid /\ line.size > 0 /\ line.size <= MAX_LINE_LENGTH
    /\ line.shape = "ok"

\* C22: when the replay of a file of well-formed lines has ended,
\* total_posts is the number of its lines that are post-create events.
C22_ReplayCountsPostCreates ==
    (/\ data_file # None
     /\ pc["main"] = "exited"
     /\ \A i \in 1..Len(data_file[1].lines) : WellFormedLine(data_file[1].lines[i]))
       => stats.total_posts
            = Cardinality({ i \in 1..Len(data_file[1].lines) :
                              IsPostCreateLine(data_file[1].lines[i]) })

(***************************************************************************)
(* Logs of an earlier run                                                  *)
(***************************************************************************)
\* C23: the files that an earlier run (session 0) left are set aside before
\* the run starts, so the run never appends to one of them: no file under
\* LOGS/ holds lines of the earlier run together with lines of this run.
C23_PriorLogsSetAside ==
    \A name \in DOMAIN fs :
        name.dir = "LOGS" => ~(0 \in fs[name] /\ fs[name] # {0})

(***************************************************************************)
(* Reconnection                                                            *)
(***************************************************************************)
\* C24: after the connection is lost the adapter makes its next connection
\* attempt only out of the 5 s backoff sleep: no step takes monitor_jetstream
\* back to websockets.connect from anywhere else.
C24_BackoffBeforeReconnect ==
    [][(pc["monitor"] # "connect" /\ pc'["monitor"] = "connect")
          => pc["monitor"] = "backoff"]_vars

(***************************************************************************)
(* Order of the worker                                                     *)
(***************************************************************************)
\* the ids of seq grow from its head to its end
Increasing(seq) == \A i, j \in 1..Len(seq) : i < j => seq[i] < seq[j]

\* C25: the posts are emitted in the order in which their tasks were put on
\* the queue (the ids number the puts), and the worker takes a task off the
\* queue, one at a time and from its head, only when no enrichment is
\* outstanding: the future of the previous task is not submitted.
C25_FifoOneInFlight ==
    [][/\ Increasing(emitted')
       /\ Len(post_queue') < Len(post_queue)
            => /\ executor.state # "submitted"
               /\ post_queue' = Tail(post_queue)
               /\ current_processing_post' = Some(Head(post_queue))
               /\ executor'.state = "submitted"
               /\ \A i \in 1..Len(emitted) : emitted[i] < Head(post_queue).id]_vars

\* two tasks were enqueued before the first was taken, and both were emitted
C25_Witness ==
    /\ emitted = <<1, 2>>
    /\ enqueued = 2
    /\ post_queue = <<>>
    /\ executor.state = "idle"

(***************************************************************************)
(* The hand-over from the filter to the worker                             *)
(***************************************************************************)
\* the languages counted for a post: its tags, or "unknown" once
LanguageKeys(m) == IF m.langs # <<>> THEN Range(m.langs) ELSE {"unknown"}

\* C26: in analyzed mode the step that processes a matched post puts exactly
\* one task, for that post, at the end of the queue, and the state in which
\* the task is on the queue holds all the statistics of the post (total,
\* displayed, language, keyword and hashtag counts); the step of an
\* unmatched post, of a post with empty text and of any other frame leaves
\* the queue as it is.
C26_EnqueuedOnceAfterStatistics ==
    [][(filter_recv /\ analyzed_mode) =>
         LET m == Last(ws_msg')
         IN IF WellFormed(m) /\ m.text # <<>> /\ Matches(m.text, stats.keywords)
            THEN /\ Len(post_queue') = Len(post_queue) + 1
                 /\ SubSeq(post_queue', 1, Len(post_queue)) = post_queue
                 /\ Last(post_queue').text = m.text
                 /\ Last(post_queue').id = enqueued + 1
                 /\ enqueued' = enqueued + 1
                 /\ stats'.total_posts = stats.total_posts + 1
                 /\ stats'.displayed_posts = stats.displayed_posts + 1
                 /\ \A l \in LanguageKeys(m) :
                       CountOf(stats'.language_counts, l)
                         > CountOf(stats.language_counts, l)
                 /\ \A i \in 1..Len(stats.keywords) :
                       KeywordIn(stats.keywords[i], m.text)
                         => CountOf(stats'.keyword_counts, stats.keywords[i])
                              > CountOf(stats.keyword_counts, stats.keywords[i])
                 /\ \A h \in AllCounterKeys(m) :
                       TagsLoweredTo(h, m) > 0
                         => CountOf(stats'.hashtag_counts, h)
                              = CountOf(stats.hashtag_counts, h) + TagsLoweredTo(h, m)
            ELSE /\ post_queue' = post_queue
                 /\ enqueued' = enqueued]_vars

\* in analyzed mode a matched post with hashtags and then an unmatched post
\* were received: one task is waiting, for the first post
C26_Witness ==
    /\ analyzed_mode
    /\ Len(ws_msg) = 2
    /\ WellFormed(ws_msg[1]) /\ Matches(ws_msg[1].text, stats.keywords)
    /\ ws_msg[1].facets # <<>>
    /\ WellFormed(ws_msg[2]) /\ ws_msg[2].text = <<"x">>
    /\ ~Matches(ws_msg[2].text, stats.keywords)
    /\ enqueued = 1
    /\ stats.displayed_posts = 1
    /\ Len(post_queue) = 1
    /\ post_queue[1].text = ws_msg[1].text

(***************************************************************************)
(* Cooperative cancellation of the background tasks                        *)
(***************************************************************************)
StopRequested == quit_flag \/ graceful_stop

\* C27: whenever a stop of either kind is requested and the periodic flush or
\* the live-statistics refresh is suspended in its sleep, the step it takes
\* when it wakes up leaves its loop.
C27_TasksLeaveLoopOnAnyStop ==
    /\ (StopRequested /\ pc["flush"] = "sleep")
          => ENABLED (periodic_flush /\ pc'["flush"] = "done")
    /\ (StopRequested /\ pc["live"] = "sleep")
          => ENABLED (update_live_stats /\ pc'["live"] = "done")

(***************************************************************************)
(* A log sink that fails in the middle of a run                            *)
(***************************************************************************)
\* C28: while the receive loop runs with a log sink whose write fails (the
\* sink is closed), a post that contains a keyword is still counted by
\* display_post in displayed_posts and in the counts of its keywords.
C28_LogFailureStillCounts ==
    (log_files.closed /\ pc["monitor"] = "recv")
      => \A m \in Messages :
           (WellFormed(m) /\ m.text # <<>> /\ Matches(m.text, keywords))
             => LET g == display_post(Globals, m, keywords, keywords_lower)
                IN /\ g.stats.displayed_posts = stats.displayed_posts + 1
                   /\ \A i \in 1..Len(keywords) :
                         KeywordIn(keywords[i], m.text)
                           => CountOf(g.stats.keyword_counts, keywords[i])
                                > CountOf(stats.keyword_counts, keywords[i])

(***************************************************************************)
(* The counter of external URLs                                            *)
(***************************************************************************)
\* C29: the step of the live receive loop that processes a matched post adds
\* to total_urls the number of distinct valid links of the post, and the
\* step of any other frame leaves total_urls as it is.
C29_UrlsCountedPerMatchedPost ==
    [][filter_recv =>
         LET m == Last(ws_msg')
         IN stats'.total_urls =
              stats.total_urls
                + (IF WellFormed(m) /\ m.text # <<>> /\ Matches(m.text, stats.keywords)
                   THEN Len(extract_links(m)) ELSE 0)]_vars

(***************************************************************************)
(* External links                                                          *)
(***************************************************************************)
\* the hosts of the platform the posts come from (the profile links that
\* get_user_profile builds, line 1287)
PlatformHosts == {"bsky.app"}

External(u) == ValidHttpUrl(u) /\ u[4] \notin PlatformHosts

\* C30: the links that process_post_analyzed puts in post_info are the
\* distinct valid http/https links of the post whose host is not a host of
\* the platform, each once and in order of first occurrence.
C30_LinksExcludePlatformHosts ==
    [][run_in_executor =>
         LET record == current_processing_post[1]
             post_info == executor'.ret[1]
         IN DistinctInOrder(post_info.links, ValuesOf("link", record), External)]_vars

(***************************************************************************)
(* The language counter                                                    *)
(***************************************************************************)
\* the number of positions of seq that hold v
Occurrences(v, seq) == Cardinality({ i \in 1..Len(seq) : seq[i] = v })

\* C31: the step of the receive loop that processes a matched post adds to
\* language_counts one for each language tag of the post, or one for
\* "unknown" when the post has no tag, and changes no other entry; the step
\* of any other frame leaves language_counts as it is.
C31_LanguageCounts ==
    [][filter_recv =>
         LET m == Last(ws_msg')
         IN IF WellFormed(m) /\ m.text # <<>> /\ Matches(m.text, stats.keywords)
            THEN \A l \in DOMAIN stats'.language_counts \cup Range(m.langs)
                              \cup {"unknown"} :
                   CountOf(stats'.language_counts, l)
                     = CountOf(stats.language_counts, l)
                       + (IF m.langs # <<>> THEN Occurrences(l, m.langs)
                          ELSE IF l = "unknown" THEN 1 ELSE 0)
            ELSE stats'.language_counts = stats.language_counts]_vars

\* a matched post with two language tags and a matched post without tags
\* were counted
C31_Witness ==
    /\ Len(ws_msg) = 2
    /\ WellFormed(ws_msg[1]) /\ ws_msg[1].langs = <<"fi", "en">>
    /\ WellFormed(ws_msg[2]) /\ ws_msg[2].langs = <<>>
    /\ stats.displayed_posts = 2
    /\ DOMAIN stats.language_counts = {"fi", "en", "unknown"}
    /\ \A l \in DOMAIN stats.language_counts : stats.language_counts[l] = 1

(***************************************************************************)
(* The writers of Statistics                                               *)
(***************************************************************************)
Counters(s) ==
    <<s.total_posts, s.displayed_posts, s.keyword_counts, s.language_counts,
      s.hashtag_counts, s.all_hashtag_counts, s.total_urls>>

\* C32: a step that changes a counter of the current Statistics object is a
\* step of the receive loop that handed a frame to display_post; the steps of
\* the worker, the keyboard poller, the flush task, the display refresh, the
\* clock and the lifecycle controller leave the counters of the object as
\* they are, and an object that replaces it starts with all counters empty.
C32_SingleWriter ==
    [][/\ (stats'.id = stats.id /\ Counters(stats') # Counters(stats)) => monitor_recv
       /\ stats'.id # stats.id
             => Counters(stats') = Counters(Statistics(stats.keywords, 0, 0))]_vars

\* the keyboard poller, the worker and its executor have all acted on a
\* session with counted posts
C32_Witness ==
    /\ stats.id = 1
    /\ stats.displayed_posts = 2
    /\ graceful_stop
    /\ emitted = <<1, 2>>
    /\ pc["keyboard"] = "done"

(***************************************************************************)
(* Sessions and shutdown                                                   *)
(***************************************************************************)
\* C33: once a stop of either kind is requested no step opens a new
\* session: the Statistics object and the log sink stay the ones that were
\* active when the stop was requested.
C33_NoNewSessionAfterStop ==
    [][StopRequested => /\ stats'.id = stats.id
                        /\ log_files'.all_filename = log_files.all_filename]_vars

\* C34: whenever the worker has left its loops on the graceful path, the
\* queue is empty: no task was put on it after the worker ended.
C34_NoTaskStranded ==
    (pc["worker"] = "done" /\ graceful_stop /\ ~quit_flag) => post_queue = <<>>

(***************************************************************************)
(* The replay monitor                                                      *)
(***************************************************************************)
\* C35: as long as run_file_monitor has not returned after a stop of either
\* kind or after the end of the file (which sets quit_flag), one of its
\* tasks can take a step that changes the state: it never hangs.
C35_ReplayMonitorTerminates ==
    (StopRequested /\ pc["main"] = "loop") => ENABLED <<FileMonitorStep>>_vars

\* the lines on which a turn of the loop of prescan_data_file acts
PrescanRecords(lines) ==
    SelectSeq(lines, LAMBDA line : Counted(line) /\ RecordOf(line) # None)

\* prescan_data_file over the lines of a file
RECURSIVE PrescanLines(_, _, _, _)
PrescanLines(g, lines, kws, kws_lower) ==
    IF lines = <<>> THEN g
    ELSE PrescanLines(PrescanLine(g, Head(lines), kws, kws_lower), Tail(lines),
                      kws, kws_lower)

\* C36: when the replay has gone through the whole file, the counters of
\* its Statistics equal the counters that prescan_data_file computes from
\* the same file and keyword list in a fresh Statistics, the external-URL
\* counter included.
C36_ReplayEqualsPrescan ==
    (pc["monitor"] = "done" /\ data_file[1].read = Len(data_file[1].lines))
      => Counters(stats)
           = Counters(PrescanLines([Globals EXCEPT !.stats = Statistics(stats.keywords, 1, 0)],
                                   PrescanRecords(data_file[1].lines), stats.keywords,
                                   LowerAll(stats.keywords)).stats)

(***************************************************************************)
(* Invariants of the counters of a session                                 *)
(***************************************************************************)
\* C37: in every state the count of every configured keyword is at most the
\* number of displayed posts of the session.
C37_KeywordCountAtMostDisplayed ==
    \A i \in 1..Len(stats.keywords) :
       CountOf(stats.keyword_counts, stats.keywords[i]) <= stats.displayed_posts

\* C38: in every state the matched-only count of every hashtag is at most
\* its stream-wide count.
C38_MatchedHashtagsAtMostAll ==
    \A t \in DOMAIN stats.hashtag_counts :
       stats.hashtag_counts[t] <= CountOf(stats.all_hashtag_counts, t)

\* a matched post with the hashtags "T" and "t" and an unmatched post with
\* the hashtag "t" were received: the stream-wide count of "t" is ahead of
\* its matched-only count
C38_Witness ==
    /\ Len(ws_msg) = 2
    /\ stats.total_posts = 2
    /\ stats.displayed_posts = 1
    /\ \E i \in 1..2 : <<"T">> \in Range(ValuesOf("tag", ws_msg[i]))
    /\ CountOf(stats.hashtag_counts, <<"t">>) = 2
    /\ CountOf(stats.all_hashtag_counts, <<"t">>) = 3

(***************************************************************************)
(* Tasks and annotated posts over a whole run                              *)
(***************************************************************************)
\* the posts displayed by the sessions that archive_logs_and_reset replaced
RECURSIVE DisplayedIn(_)
DisplayedIn(sessions) ==
    IF sessions = <<>> THEN 0
    ELSE Head(sessions).displayed_posts + DisplayedIn(Tail(sessions))

\* the matched posts of the run, over all its sessions
MatchedInRun == stats.displayed_posts + DisplayedIn(archived)

\* the tasks taken off the queue
Dequeued == enqueued - Len(post_queue)

\* C39: in every state of a run, auto-restarts included, the emitted
\* annotated posts are distinct tasks that were put on the queue and taken
\* off it, and emitted <= dequeued <= enqueued <= matched posts.
C39_EmittedWithinEnqueued ==
    /\ Increasing(emitted)
    /\ \A i \in 1..Len(emitted) :
          /\ emitted[i] \in 1..enqueued
          /\ \A j \in 1..Len(post_queue) : post_queue[j].id # emitted[i]
    /\ Len(emitted) <= Dequeued
    /\ Dequeued <= enqueued
    /\ enqueued <= MatchedInRun

\* after an auto-restart: two tasks were enqueued over two sessions, one was
\* emitted and the other is still on the queue
C39_Witness ==
    /\ Len(archived) = 1
    /\ archived[1].displayed_posts = 1
    /\ stats.displayed_posts = 1
    /\ enqueued = 2
    /\ emitted = <<1>>
    /\ Len(post_queue) = 1

(***************************************************************************)
(* The shutdown flags                                                      *)
(***************************************************************************)
\* C40: no step of a run clears quit_flag or graceful_stop once it is set,
\* the steps that archive a session and open the next one included.
C40_FlagsMonotone ==
    [][/\ quit_flag => quit_flag'
       /\ graceful_stop => graceful_stop']_vars

\* the run has returned after a session was archived and replaced, with the
\* graceful stop still set
C40_Witness ==
    /\ pc["main"] = "returned"
    /\ Len(archived) = 1
    /\ stats.id = 2
    /\ graceful_stop
    /\ ~quit_flag

====
